---- MODULE Spec2Model ----
(***************************************************************************)
(* A model of the graph execution engine of dsp-stuff: the graph            *)
(* orchestrator (runtime.rs), the node execution loop and fan-in averaging  *)
(* (node.rs) and the ring-buffer protocol the loops and the device          *)
(* callbacks follow (node.rs, devices.rs).                                  *)
(***************************************************************************)
EXTENDS Integers, Sequences, FiniteSets, TLC

(***************************************************************************)
(* Bounds of the model.                                                     *)
(***************************************************************************)
\* NodeId::generate is called at most this many times
MaxNodes == 3
\* LinkId::generate is called at most this many times
MaxLinks == 2
\* at most this many node tasks are ever spawned
MaxTasks == 4
\* PortId::generate is called at most this many times
MaxPorts == 9
\* capacity of a link buffer in blocks (8192 samples / 128 in the program)
LinkCap == 1
\* capacity of a link buffer in blocks in the model of the node loop
RingCap == 2
\* samples in a block in the model of fan-in averaging (128 in the program)
BlockLen == 3
\* capacity of a device ring in samples in the model of the callbacks (8192 in
\* the program)
SampleCap == 6
\* most samples one callback or one node iteration moves in that model
MaxNeed == 2
\* threads that call invoke() in the model of the device worker
MaxCallers == 2
\* devices the worker opens in that model
MaxDevices == 2
\* usize::MAX + 1 in the model of an identity counter (2^64 in the program)
UsizeMod == 4
\* links a node's input port reads (fan-in) in the model of its loop
MaxFanIn == 2
\* links a node's output port feeds (fan-out) in the model of its loop
MaxFanOut == 2

VARIABLES
    \* ---- graph orchestrator (UiContext) ----
    nodes,        \* NodeId -> [kind, ins, outs, task]
    links,        \* LinkId -> [lhs, rhs, fill]
    inputs,       \* <<NodeId, PortId>> -> set of LinkId
    outputs,      \* <<NodeId, PortId>> -> set of LinkId
    nodeCounter,  \* NodeId::counter()
    portCounter,  \* PortId::counter()
    linkCounter,  \* LinkId::counter()
    taskCounter,  \* number of tasks spawned so far (task identity)
    panicked,     \* an unwrap() or assert! of the control thread failed
    log,          \* what the last handler did, in order
    \* ---- one node task, the links it holds and stop() (NodeInstance) ----
    lins,         \* the source handles of the task's input port, in order
    louts,        \* the sink handles of the task's output port, in order
    ring,         \* link -> [q, wwin, wbuf, rwin]: the link's ring buffer
    task,         \* [pc, i, suspended, exitAt, present, merged]: where the task is
    cancelled,    \* the oneshot cancel message has been sent
    stopPc,       \* where the control thread is in stop() or load_device()
    dev,          \* [open, q, next]: the device stream an Input node reads
    \* ---- one call of collect_and_average ----
    avgIn,        \* the views of the input port's links, in order
    avgOut,       \* [done, output, num_frames, r]: the merged block
    \* ---- the rings of an output and an input device and their callbacks ----
    outFill,      \* samples the output device's ring holds for its callback
    inFill,       \* samples the input device's ring holds for its node
    catchup,      \* the output device's trigger_catchup counter (AtomicU8)
    cb,           \* what the latest step did, when it was a device callback
    \* ---- the device worker thread and the callers of invoke() ----
    chan,         \* DEVICE_CMD_CHAN: the commands sent and not yet received
    running,      \* the commands the worker has received and not yet answered
    workerUp,     \* the worker thread has not panicked
    devices,      \* the keys of the worker's devices map
    deviceCounter,\* DeviceId::counter()
    client,       \* caller -> [pc, cmd, resp, n]: where its invoke() is
    served,       \* [cmd, fault, before]: the command the worker served last
    \* ---- the counter of one identity type (impl_id_gen) ----
    idCounter,    \* counter(): the AtomicUsize
    generated,    \* the values generate() has returned
    restored,     \* the values restore() has returned
    wrapped,      \* an addition on the counter has overflowed
    build,        \* "debug" or "release": whether overflow checks are compiled in
    idOp,         \* [op, val, ret]: the call that ran last (ret = {} if it panicked)
    \* ---- one node and its saved configuration (Node::save / restore) ----
    rnode,        \* [type, id, ins, outs, param, host, device]: the node
    rcfg,         \* what save() returned last
    rop,          \* "save", "restore", "edit" or "none": the step that ran last
    \* ---- opening a stream on one device (input_stream / output_stream) ----
    supported,    \* the device's supported configurations, in the driver's order
    chosen,       \* [dir, ok, channels, rate, resample]: the stream that was built
    \* ---- one port registry (PortStorage) ----
    reg           \* [ports, local_indexes, portid_indexes, counter]

gvars == <<nodes, links, inputs, outputs, nodeCounter, portCounter,
           linkCounter, taskCounter, panicked, log>>

lvars == <<lins, louts, ring, task, cancelled, stopPc, dev>>

avars == <<avgIn, avgOut>>

cvars == <<outFill, inFill, catchup, cb>>

wvars == <<chan, running, workerUp, devices, deviceCounter, client, served>>

ivars == <<idCounter, generated, restored, wrapped, build, idOp>>

rvars == <<rnode, rcfg, rop>>

svars == <<supported, chosen>>

pvars == <<reg>>

vars == <<gvars, lvars, avars, cvars, wvars, ivars, rvars, svars, pvars>>

\* what the steps of each part of the model leave alone
notGraph == <<lvars, avars, cvars, wvars, ivars, rvars, svars, pvars>>

notLoop == <<gvars, avars, cvars, wvars, ivars, rvars, svars, pvars>>

notAvg == <<gvars, lvars, cvars, wvars, ivars, rvars, svars, pvars>>

notCallbacks == <<gvars, lvars, avars, wvars, ivars, rvars, svars, pvars>>

notWorker == <<gvars, lvars, avars, cvars, ivars, rvars, svars, pvars>>

notIds == <<gvars, lvars, avars, cvars, wvars, rvars, svars, pvars>>

notSaved == <<gvars, lvars, avars, cvars, wvars, ivars, svars, pvars>>

notStreams == <<gvars, lvars, avars, cvars, wvars, ivars, rvars, pvars>>

notPorts == <<gvars, lvars, avars, cvars, wvars, ivars, rvars, svars>>

(***************************************************************************)
(* Helpers.                                                                 *)
(***************************************************************************)
Restrict(f, S) == [x \in S |-> f[x]]

Range(s) == {s[i] : i \in 1..Len(s)}

\* all orders in which the elements of a finite set can be iterated
Perms(S) ==
    {s \in [1..Cardinality(S) -> S] : \A x \in S : \E i \in 1..Cardinality(S) : s[i] = x}

\* the elements of a finite set of integers in ascending order
RECURSIVE Ascending(_)
Ascending(S) ==
    IF S = {} THEN <<>>
    ELSE LET m == CHOOSE x \in S : \A y \in S : x <= y
         IN  <<m>> \o Ascending(S \ {m})

RECURSIVE UnionSeq(_)
UnionSeq(s) == IF s = <<>> THEN {} ELSE Head(s) \cup UnionSeq(Tail(s))

\* inputs.iter().map(|v| v.len()).sum()
RECURSIVE SumLen(_)
SumLen(s) == IF s = <<>> THEN 0 ELSE Cardinality(Head(s)) + SumLen(Tail(s))

(***************************************************************************)
(* Node types: the ports their constructors add, inputs first.              *)
(***************************************************************************)
Kinds == {"Gain"}

\* the node types added in the model of save and load
NodeTypes == {"Gain", "LowPass", "HighPass"}

NumInputs(kind) == IF kind = "Mix" THEN 2 ELSE 1

NumOutputs(kind) == 1

\* NodeInstance.task = None
NoTask == [id |-> 0, inputs |-> <<>>, outputs |-> <<>>]

\* Node::cfg_name of a node type: the typename its configuration is saved under
cfg_name(kind) ==
    CASE kind = "Gain" -> "gain"
      [] kind = "Mix" -> "mix"
      [] kind = "LowPass" -> "high_pass"
      [] kind = "HighPass" -> "high_pass"

\* nodes::RESTORE: the node type whose restore() a saved typename selects
RESTORE(typename) ==
    CASE typename = "gain" -> "Gain"
      [] typename = "mix" -> "Mix"
      [] typename = "low_pass" -> "LowPass"
      [] typename = "high_pass" -> "HighPass"

(***************************************************************************)
(* The orchestrator's state as one value, so that the steps of one handler  *)
(* compose.                                                                 *)
(***************************************************************************)
G == [nodes |-> nodes, links |-> links, inputs |-> inputs, outputs |-> outputs,
      linkCounter |-> linkCounter, taskCounter |-> taskCounter,
      panicked |-> panicked, log |-> <<>>]

Panic(g) == [g EXCEPT !.panicked = TRUE]

Logged(g, e) == [g EXCEPT !.log = Append(@, e)]

\* HashMap::entry(k).or_default().insert(id)
EntryInsert(m, k, id) ==
    IF k \in DOMAIN m THEN [m EXCEPT ![k] = @ \cup {id}]
    ELSE [x \in DOMAIN m \cup {k} |-> IF x = k THEN {id} ELSE m[x]]

\* UiContext::add_node: a stopped node and an empty index entry per port
add_node(g, id, kind, ins, outs) ==
    Logged([g EXCEPT
        !.nodes = [n \in DOMAIN @ \cup {id} |->
                     IF n = id THEN [kind |-> kind, ins |-> ins, outs |-> outs, task |-> NoTask]
                     ELSE @[n]],
        !.inputs = [k \in DOMAIN @ \cup {<<id, p>> : p \in Range(ins)} |->
                      IF k[1] = id /\ k[2] \in Range(ins) THEN {} ELSE @[k]],
        !.outputs = [k \in DOMAIN @ \cup {<<id, p>> : p \in Range(outs)} |->
                       IF k[1] = id /\ k[2] \in Range(outs) THEN {} ELSE @[k]]],
           <<"add_node", id>>)

\* LinkInstance::new: a fresh, empty circular buffer
LinkInstanceNew(lhs, rhs) == [lhs |-> lhs, rhs |-> rhs, fill |-> 0]

\* add_link forgetting the inputs index
add_link_no_input_index(g, lhs, rhs) ==
    LET id == g.linkCounter
    IN  Logged([g EXCEPT !.linkCounter = @ + 1,
                         !.links = [l \in DOMAIN g.links \cup {id} |->
                                      IF l = id THEN [lhs |-> lhs, rhs |-> rhs, fill |-> 0]
                                      ELSE g.links[l]],
                         !.outputs = [k \in DOMAIN @ \cup {lhs} |->
                                        IF k = lhs
                                        THEN (IF k \in DOMAIN @ THEN @[k] ELSE {}) \cup {id}
                                        ELSE @[k]]],
               <<"add_link", id>>)

\* UiContext::add_link
add_link(g, lhs, rhs) ==
    LET id == g.linkCounter
    IN  Logged([g EXCEPT !.linkCounter = @ + 1,
                         !.links = [l \in DOMAIN g.links \cup {id} |->
                                      IF l = id THEN LinkInstanceNew(lhs, rhs) ELSE g.links[l]],
                         !.outputs = EntryInsert(g.outputs, lhs, id),
                         !.inputs = EntryInsert(g.inputs, rhs, id)],
               <<"add_link", id>>)

\* UiContext::compute_inputs_for: per input port, by ordinal, the links ending there
compute_inputs_for(g, n) ==
    LET ps == g.nodes[n].ins
    IN  [i \in 1..Len(ps) |->
           IF <<n, ps[i]>> \in DOMAIN g.inputs THEN g.inputs[<<n, ps[i]>>] ELSE {}]

\* UiContext::compute_outputs_for: per output port, by ordinal, the links starting there
compute_outputs_for(g, n) ==
    LET ps == g.nodes[n].outs
    IN  [i \in 1..Len(ps) |->
           IF <<n, ps[i]>> \in DOMAIN g.outputs THEN g.outputs[<<n, ps[i]>>] ELSE {}]

\* the self.links.get(l).unwrap() of compute_*_for succeed
HandlesValid(g, n) ==
    /\ UnionSeq(compute_inputs_for(g, n)) \subseteq DOMAIN g.links
    /\ UnionSeq(compute_outputs_for(g, n)) \subseteq DOMAIN g.links

\* a stop that also releases what the links into the node still hold
stop_draining(g, n) ==
    IF g.nodes[n].task.id # 0
    THEN Logged([g EXCEPT !.nodes[n].task = NoTask,
                          !.links = [l \in DOMAIN @ |->
                                       IF @[l].rhs[1] = n
                                       THEN [@[l] EXCEPT !.fill = 0] ELSE @[l]]],
                <<"stop", n>>)
    ELSE g

\* NodeInstance::stop: cancel the task and wait until it has exited
stop(g, n) ==
    IF g.nodes[n].task.id # 0
    THEN Logged([g EXCEPT !.nodes[n].task = NoTask], <<"stop", n>>)
    ELSE g

\* start without the early return for a node that has no handles
start_always(g, n, ins, outs) ==
    IF g.nodes[n].task.id # 0 THEN [g EXCEPT !.panicked = TRUE]
    ELSE [g EXCEPT !.nodes[n].task =
                       [id |-> g.taskCounter + 1, inputs |-> ins, outputs |-> outs],
                   !.taskCounter = @ + 1,
                   !.log = Append(@, <<"start", n>>)]

\* NodeInstance::start
start(g, n, ins, outs) ==
    LET num_inputs == SumLen(ins)
        num_outputs == SumLen(outs)
    IN  IF g.nodes[n].task.id # 0 THEN Panic(g)
        ELSE IF num_inputs = 0 /\ num_outputs = 0 THEN Logged(g, <<"abandon", n>>)
        ELSE Logged([g EXCEPT !.nodes[n].task =
                                  [id |-> g.taskCounter + 1, inputs |-> ins, outputs |-> outs],
                              !.taskCounter = @ + 1],
                    <<"start", n>>)

\* a restart that starts the new task without stopping the old one
restart_without_stop(g, n, ins, outs) ==
    start(Logged(g, <<"restart", n>>), n, ins, outs)

\* NodeInstance::restart
restart(g, n, ins, outs) == start(stop(Logged(g, <<"restart", n>>), n), n, ins, outs)

\* UiContext::restart_node
restart_node(g, n) ==
    IF g.panicked THEN g
    ELSE IF n \notin DOMAIN g.nodes \/ ~HandlesValid(g, n) THEN Panic(g)
    ELSE restart(g, n, compute_inputs_for(g, n), compute_outputs_for(g, n))

RECURSIVE restart_nodes(_, _)
restart_nodes(g, order) ==
    IF order = <<>> THEN g
    ELSE restart_nodes(restart_node(g, Head(order)), Tail(order))

\* UiContext::update_all, the nodes visited in the given order
update_all(g, order) ==
    IF \E n \in DOMAIN g.nodes : ~HandlesValid(g, n) THEN Panic(g)
    ELSE restart_nodes(g, order)

(***************************************************************************)
(* UiContext::update_nodes: the three kinds of edit the node editor reports *)
(***************************************************************************)
NoId == 0 - 1

NoCreate == [sp |-> <<NoId, NoId>>, ep |-> <<NoId, NoId>>]

\* link_destroyed restarting every node instead of the two endpoints
link_destroyed_restart_all(g, id) ==
    IF id \notin DOMAIN g.links THEN g
    ELSE LET inst == g.links[id]
             g1 == Logged([g EXCEPT !.links = Restrict(@, DOMAIN @ \ {id}),
                                    !.outputs[inst.lhs] = @ \ {id},
                                    !.inputs[inst.rhs] = @ \ {id}],
                          <<"remove_link", id>>)
         IN  Logged(update_all(g1, Ascending(DOMAIN g1.nodes)), <<"resync">>)

\* a link_destroyed that takes the link out of the link map and leaves its id
\* in both indices
link_destroyed_keeping_index(g, id) ==
    IF id \notin DOMAIN g.links THEN g
    ELSE LET inst == g.links[id]
             g1 == Logged([g EXCEPT !.links = Restrict(@, DOMAIN @ \ {id})],
                          <<"remove_link", id>>)
             g2 == restart_node(g1, inst.lhs[1])
             g3 == restart_node(g2, inst.rhs[1])
         IN  Logged(g3, <<"resync">>)

\* the link_destroyed branch; id is the key the GUI's index resolves to
link_destroyed(g, id) ==
    IF id \notin DOMAIN g.links THEN g
    ELSE LET inst == g.links[id]
         IN  IF inst.lhs \notin DOMAIN g.outputs \/ inst.rhs \notin DOMAIN g.inputs
             THEN Panic(g)
             ELSE LET g1 == Logged([g EXCEPT !.links = Restrict(@, DOMAIN @ \ {id}),
                                             !.outputs[inst.lhs] = @ \ {id},
                                             !.inputs[inst.rhs] = @ \ {id}],
                                   <<"remove_link", id>>)
                      g2 == restart_node(g1, inst.lhs[1])
                      g3 == restart_node(g2, inst.rhs[1])
                  IN  Logged(g3, <<"resync">>)

\* link_created_node storing the link as dragged in its second branch
link_created_node_as_dragged(g, sp, ep) ==
    IF sp \in DOMAIN g.inputs /\ ep \in DOMAIN g.outputs
    THEN Logged(restart_node(restart_node(add_link(g, sp, ep), ep[1]), sp[1]),
                <<"resync">>)
    ELSE IF ep \in DOMAIN g.inputs /\ sp \in DOMAIN g.outputs
    THEN Logged(restart_node(restart_node(add_link(g, sp, ep), ep[1]), sp[1]),
                <<"resync">>)
    ELSE Logged(g, <<"rejected">>)

\* a link_created_node that restarts only the node the drag ended on
link_created_node_one_restart(g, sp, ep) ==
    IF sp \in DOMAIN g.inputs /\ ep \in DOMAIN g.outputs
    THEN Logged(restart_node(add_link(g, ep, sp), ep[1]), <<"resync">>)
    ELSE IF ep \in DOMAIN g.inputs /\ sp \in DOMAIN g.outputs
    THEN Logged(restart_node(add_link(g, sp, ep), ep[1]), <<"resync">>)
    ELSE Logged(g, <<"rejected">>)

\* the link_created_node branch; sp and ep are the (node, pin) pairs the GUI reports
link_created_node(g, sp, ep) ==
    IF sp \in DOMAIN g.inputs /\ ep \in DOMAIN g.outputs
    THEN Logged(restart_node(restart_node(add_link(g, ep, sp), ep[1]), sp[1]),
                <<"resync">>)
    ELSE IF ep \in DOMAIN g.inputs /\ sp \in DOMAIN g.outputs
    THEN Logged(restart_node(restart_node(add_link(g, sp, ep), ep[1]), sp[1]),
                <<"resync">>)
    ELSE Logged(g, <<"rejected">>)

\* the links a deletion of n collects
links_to_remove(g, n) ==
    {l \in DOMAIN g.links : g.links[l].lhs[1] = n \/ g.links[l].rhs[1] = n}

\* nodes_to_restart without the else-if branch for the downstream endpoint
nodes_to_restart_upstream_only(g, n) ==
    {g.links[l].lhs[1] : l \in {k \in links_to_remove(g, n) : g.links[k].lhs[1] # n}}

\* the other endpoints of the links a deletion of n collects
nodes_to_restart(g, n) ==
    {g.links[l].lhs[1] : l \in {k \in links_to_remove(g, n) : g.links[k].lhs[1] # n}}
    \cup {g.links[l].rhs[1] : l \in {k \in links_to_remove(g, n) :
                                        g.links[k].lhs[1] = n /\ g.links[k].rhs[1] # n}}

\* a deletion that drops the link buffers before it restarts the other ends
delete_node_dropping_first(g, n, order) ==
    LET g1 == IF n \in DOMAIN g.nodes THEN stop(g, n) ELSE g
        rm == links_to_remove(g1, n)
        g2 == Logged([g1 EXCEPT
                  !.outputs = [k \in DOMAIN @ |->
                                 @[k] \ {l \in rm : g1.links[l].lhs = k}],
                  !.inputs = [k \in DOMAIN @ |->
                                 @[k] \ {l \in rm : g1.links[l].rhs = k}]],
                     <<"unindex", rm>>)
        g3 == Logged([g2 EXCEPT !.links = Restrict(@, DOMAIN @ \ rm)],
                     <<"drop_links", rm>>)
        g4 == restart_nodes(g3, SelectSeq(order, LAMBDA m : m \in nodes_to_restart(g1, n)))
    IN  Logged([g4 EXCEPT
            !.nodes = Restrict(@, DOMAIN @ \ {n}),
            !.inputs = Restrict(@, {k \in DOMAIN @ : k[1] # n}),
            !.outputs = Restrict(@, {k \in DOMAIN @ : k[1] # n})],
               <<"remove_node", n>>)

\* one round of the node deletion loop; nodes_to_restart is iterated in the order
\* its members have in order
delete_node(g, n, order) ==
    LET g1 == IF n \in DOMAIN g.nodes THEN stop(g, n) ELSE g
        rm == links_to_remove(g1, n)
    IN  IF \E l \in rm : g1.links[l].lhs \notin DOMAIN g1.outputs
                           \/ g1.links[l].rhs \notin DOMAIN g1.inputs
        THEN Panic(g1)
        ELSE LET g2 == Logged([g1 EXCEPT
                           !.outputs = [k \in DOMAIN @ |->
                                          @[k] \ {l \in rm : g1.links[l].lhs = k}],
                           !.inputs = [k \in DOMAIN @ |->
                                          @[k] \ {l \in rm : g1.links[l].rhs = k}]],
                              <<"unindex", rm>>)
                 g3 == restart_nodes(g2, SelectSeq(order, LAMBDA m : m \in nodes_to_restart(g1, n)))
                 g4 == Logged([g3 EXCEPT !.links = Restrict(@, DOMAIN @ \ rm)],
                              <<"drop_links", rm>>)
             IN  IF g3.panicked THEN g3
                 ELSE Logged([g4 EXCEPT
                          !.nodes = Restrict(@, DOMAIN @ \ {n}),
                          !.inputs = Restrict(@, {k \in DOMAIN @ : k[1] # n}),
                          !.outputs = Restrict(@, {k \in DOMAIN @ : k[1] # n})],
                             <<"remove_node", n>>)

\* the state after the first two branches of update_nodes
AfterLinkEdits(g, d, c) ==
    LET g1 == IF d = NoId THEN g ELSE link_destroyed(g, d)
    IN  IF c = NoCreate \/ g1.panicked THEN g1 ELSE link_created_node(g1, c.sp, c.ep)

\* UiContext::update_nodes with the events of one frame
update_nodes(g, d, c, del, order) ==
    LET g2 == AfterLinkEdits(g, d, c)
    IN  IF del = NoId \/ g2.panicked THEN g2 ELSE delete_node(g2, del, order)

(***************************************************************************)
(* Save, load and "Sync output".                                            *)
(***************************************************************************)
\* UiContext::save_config: NodeInstance::save and LinkInstance::save of every entry
save_config(g) ==
    [nodes |-> [n \in DOMAIN g.nodes |->
                  [typename |-> cfg_name(g.nodes[n].kind),
                   ins |-> Range(g.nodes[n].ins),
                   outs |-> Range(g.nodes[n].outs)]],
     links |-> [l \in DOMAIN g.links |-> [lhs |-> g.links[l].lhs, rhs |-> g.links[l].rhs]]]

RECURSIVE stop_all(_, _)
stop_all(g, order) ==
    IF order = <<>> THEN g ELSE stop_all(stop(g, Head(order)), Tail(order))

RECURSIVE add_links(_, _, _)
add_links(g, cfglinks, order) ==
    IF order = <<>> THEN g
    ELSE add_links(add_link(g, cfglinks[Head(order)].lhs, cfglinks[Head(order)].rhs),
                   cfglinks, Tail(order))

\* UiContext::restore_config. ports gives, per restored node, the ordinal order
\* PortStorageInner::new derives from the restored name -> PortId map; linkOrder
\* is the order of cfg.links and order the order update_all visits the nodes in.
restore_config(g, cfg, ports, linkOrder, order) ==
    LET g1 == stop_all(g, Ascending(DOMAIN g.nodes))
        ns == [n \in DOMAIN cfg.nodes |->
                 [kind |-> RESTORE(cfg.nodes[n].typename),
                  ins |-> ports[n].ins, outs |-> ports[n].outs,
                  task |-> NoTask]]
        g2 == Logged([g1 EXCEPT
                  !.links = <<>>,
                  !.nodes = ns,
                  !.inputs = [k \in UNION {{<<n, p>> : p \in Range(ns[n].ins)} :
                                            n \in DOMAIN ns} |-> {}],
                  !.outputs = [k \in UNION {{<<n, p>> : p \in Range(ns[n].outs)} :
                                             n \in DOMAIN ns} |-> {}]],
                     <<"cleared">>)
        g3 == add_links(g2, cfg.links, linkOrder)
    IN  update_all(g3, order)

\* LinkInstance::resync, called by the control thread: it locks the source of
\* the link and releases all the view holds
resync(g, l) == Logged([g EXCEPT !.links[l].fill = 0], <<"link_resync", l>>)

RECURSIVE resync_links(_, _)
resync_links(g, order) ==
    IF order = <<>> THEN g ELSE resync_links(resync(g, Head(order)), Tail(order))

\* for link in self.links.values() { link.resync() }
resync_all(g) == resync_links(g, Ascending(DOMAIN g.links))

\* a "Sync output" that releases what the links hold before it stops the nodes
sync_output_resync_first(g, order) ==
    update_all(stop_all(resync_all(Logged(g, <<"resync">>)), Ascending(DOMAIN g.nodes)), order)

\* the "Sync output" button of UiContext::update
sync_output(g, order) ==
    update_all(resync_all(stop_all(Logged(g, <<"resync">>), Ascending(DOMAIN g.nodes))), order)

(***************************************************************************)
(* One block-sized iteration of a running node's loop, seen from the graph: *)
(* it needs room for a block on every link it writes and a block on every   *)
(* link it reads, takes one block from each input link and commits one to   *)
(* each output link.                                                        *)
(***************************************************************************)
CanIterate(g, n) ==
    LET t == g.nodes[n].task
    IN  /\ t.id # 0
        /\ UnionSeq(t.inputs) \cup UnionSeq(t.outputs) \subseteq DOMAIN g.links
        /\ \A l \in UnionSeq(t.outputs) : g.links[l].fill < LinkCap
        /\ \A l \in UnionSeq(t.inputs) : g.links[l].fill >= 1

iterate(g, n) ==
    LET t == g.nodes[n].task
        rd == UnionSeq(t.inputs)
        wr == UnionSeq(t.outputs)
    IN  [g EXCEPT !.links = [l \in DOMAIN @ |->
            [@[l] EXCEPT !.fill = @ - (IF l \in rd THEN 1 ELSE 0) + (IF l \in wr THEN 1 ELSE 0)]]]

(***************************************************************************)
(* Fan-in averaging (collect_and_average).  Samples are integers and the    *)
(* divisor and the merged samples are exact fractions [num, den]: the       *)
(* rounding of f32 arithmetic is some 2^-24 of a value, three orders of     *)
(* magnitude below the 0.0001 the divisor starts from.                      *)
(***************************************************************************)
Samples == {0, 1, 3}

\* the blocks a link can hold
Blocks == [1..BlockLen -> Samples]

\* let mut num_frames = 0.0001
num_frames_init == [num |-> 1, den |-> 10000]

\* num_frames += 1.0
FracInc(f) == [num |-> f.num + f.den, den |-> f.den]

\* *v /= num_frames
FracDiv(v, f) == [num |-> v * f.den, den |-> f.num]

FracEq(a, b) == a.num * b.den = b.num * a.den

\* the loop over the links of the port: a link whose view is shorter than a
\* block is skipped, any other link adds its block and counts as a frame
RECURSIVE collect(_, _)
collect(acc, input) ==
    IF input = <<>> THEN acc
    ELSE LET view == Head(input)
         IN  IF Len(view) < Len(acc.output)
             THEN collect(acc, Tail(input))
             ELSE collect([r |-> TRUE,
                           num_frames |-> FracInc(acc.num_frames),
                           output |-> [i \in 1..Len(acc.output) |->
                                           acc.output[i] + view[i]]],
                          Tail(input))

collect_and_average(output, input) ==
    LET c == collect([r |-> FALSE, num_frames |-> num_frames_init, output |-> output],
                     input)
    IN  [done |-> TRUE,
         r |-> c.r,
         num_frames |-> c.num_frames,
         output |-> [i \in 1..Len(output) |-> FracDiv(c.output[i], c.num_frames)]]

\* the views a port's links can present: a block, or less than a block
Views == Blocks \cup {<<>>}

NotAveraged == [done |-> FALSE, r |-> FALSE, num_frames |-> num_frames_init,
                output |-> <<>>]

AvgIdle ==
    /\ avgIn = <<>>
    /\ avgOut = NotAveraged

(***************************************************************************)
(* The callbacks of an output and of an input device (do_write_1,           *)
(* do_write_2, do_read_1, do_read_2) on the ring that joins each to its     *)
(* node, in samples.                                                        *)
(***************************************************************************)
\* the values of an AtomicU8
U8 == 256

\* let allowed_latency = 2
allowed_latency == 2

\* counter.fetch_add(5, ..) of TriggerResync
ResyncStep == 5

\* u8::saturating_sub(1)
saturating_sub_1(x) == IF x > 0 THEN x - 1 ELSE 0

NoCallback == [kind |-> "none", need |-> 0, view |-> 0, before |-> 0, after |-> 0,
               granted |-> FALSE, caught_up |-> FALSE, moved |-> 0, silence |-> FALSE,
               overflow |-> FALSE]

\* try_grant(n).unwrap() on a ring of SampleCap samples: a request the ring can
\* never satisfy is an error, and the unwrap panics in the callback
GrantOverflow(n) == n > SampleCap

\* do_write_1 and do_write_2 with the catch-up threshold on the view
do_write_threshold_on_view(input_len, avail, counter, index) ==
    IF GrantOverflow(input_len)
    THEN [NoCallback EXCEPT !.kind = "out", !.need = input_len, !.view = avail,
                            !.before = counter, !.after = counter,
                            !.overflow = TRUE]
    ELSE IF avail >= input_len
    THEN LET offs == avail - input_len
             caught == counter > 0 /\ avail >= input_len * allowed_latency
         IN  [kind |-> "out", need |-> input_len, view |-> avail,
              before |-> counter, after |-> saturating_sub_1(counter),
              granted |-> TRUE, caught_up |-> caught,
              moved |-> IF caught THEN avail ELSE index, silence |-> FALSE,
              overflow |-> FALSE]
    ELSE [kind |-> "out", need |-> input_len, view |-> avail,
          before |-> counter, after |-> counter,
          granted |-> FALSE, caught_up |-> FALSE, moved |-> 0, silence |-> TRUE,
          overflow |-> FALSE]

\* do_write_1 and do_write_2 taking one off the counter only in the callback
\* that skips ahead
do_write_decrement_on_skip(input_len, avail, counter, index) ==
    IF GrantOverflow(input_len)
    THEN [NoCallback EXCEPT !.kind = "out", !.need = input_len, !.view = avail,
                            !.before = counter, !.after = counter,
                            !.overflow = TRUE]
    ELSE IF avail >= input_len
    THEN LET offs == avail - input_len
             caught == counter > 0 /\ offs >= input_len * allowed_latency
         IN  [kind |-> "out", need |-> input_len, view |-> avail,
              before |-> counter,
              after |-> IF caught THEN saturating_sub_1(counter) ELSE counter,
              granted |-> TRUE, caught_up |-> caught,
              moved |-> IF caught THEN avail ELSE index, silence |-> FALSE,
              overflow |-> FALSE]
    ELSE [kind |-> "out", need |-> input_len, view |-> avail,
          before |-> counter, after |-> counter,
          granted |-> FALSE, caught_up |-> FALSE, moved |-> 0, silence |-> TRUE,
          overflow |-> FALSE]

\* do_write_1 and do_write_2: the callback of an output device that needs
\* input_len source samples, on a ring that holds avail samples; index is how
\* many samples the resampler takes from the view it is given
do_write(input_len, avail, counter, index) ==
    IF GrantOverflow(input_len)
    THEN [NoCallback EXCEPT !.kind = "out", !.need = input_len, !.view = avail,
                            !.before = counter, !.after = counter,
                            !.overflow = TRUE]
    ELSE IF avail >= input_len
    THEN LET offs == avail - input_len
             caught == counter > 0 /\ offs >= input_len * allowed_latency
         IN  [kind |-> "out", need |-> input_len, view |-> avail,
              before |-> counter, after |-> saturating_sub_1(counter),
              granted |-> TRUE, caught_up |-> caught,
              moved |-> IF caught THEN avail ELSE index, silence |-> FALSE,
              overflow |-> FALSE]
    ELSE [kind |-> "out", need |-> input_len, view |-> avail,
          before |-> counter, after |-> counter,
          granted |-> FALSE, caught_up |-> FALSE, moved |-> 0, silence |-> TRUE,
          overflow |-> FALSE]

\* a callback of an input device that writes its block whether or not the ring
\* has room
do_read_overwrite(len, free) ==
    IF GrantOverflow(len)
    THEN [NoCallback EXCEPT !.kind = "in", !.need = len, !.view = free,
                            !.overflow = TRUE]
    ELSE [NoCallback EXCEPT !.kind = "in", !.need = len, !.view = free,
                            !.granted = free >= len, !.moved = len]

\* do_read_1 and do_read_2: the callback of an input device that delivers len
\* samples, on a ring that has room for free samples
do_read(len, free) ==
    IF GrantOverflow(len)
    THEN [NoCallback EXCEPT !.kind = "in", !.need = len, !.view = free,
                            !.overflow = TRUE]
    ELSE IF free >= len
    THEN [NoCallback EXCEPT !.kind = "in", !.need = len, !.view = free,
                            !.granted = TRUE, !.moved = len]
    ELSE [NoCallback EXCEPT !.kind = "in", !.need = len, !.view = free]

\* do_read_2 of the earlier devices.rs: room is requested for data.len() / 2
\* samples and data.len() are released
do_read_2_releasing_data_len(data_len, free) ==
    LET r == do_read(data_len \div 2, free)
    IN  IF r.granted THEN [r EXCEPT !.moved = data_len] ELSE r

\* do_read_2: the callback of a stereo input device, which mixes the two
\* channels of its data_len interleaved samples into data.len() / 2 samples
do_read_2(data_len, free) == do_read(data_len \div 2, free)

\* CountingSignal::next called taken times on a view of len samples: index
\* advances only while the view has a sample at it
CountingSignalIndex(taken, len) == IF taken <= len THEN taken ELSE len

CallbacksIdle ==
    /\ outFill = 0
    /\ inFill = 0
    /\ catchup = 0
    /\ cb = NoCallback

(***************************************************************************)
(* The device worker (DEVICE_CMD_CHAN) and invoke().  A command is          *)
(* [op, dev]; what the native calls of a command do is the fault the        *)
(* worker meets while it serves the command.                                *)
(***************************************************************************)
Callers == 1..MaxCallers

NoDev == MaxDevices

DeviceCommand ==
    [op : {"ListHosts", "ListInputs", "ListOutputs", "OpenInput",
           "OpenOutput", "TriggerResync"}, dev : {NoDev}]
    \cup [op : {"CloseDevice"}, dev : 0..(MaxDevices - 1)]

NoCommand == [op |-> "none", dev |-> NoDev]

\* value is the Option an open command answers with: {id} or {}
NoResponse == [variant |-> "none", value |-> {}, caller |-> 0,
               cmd |-> NoCommand]

\* the variant of DeviceResponse the worker sends for a command
Variant(op) ==
    CASE op = "ListHosts" -> "Hosts"
      [] op \in {"ListInputs", "ListOutputs"} -> "Devices"
      [] op = "OpenInput" -> "InputOpened"
      [] op = "OpenOutput" -> "OutputOpened"
      [] op = "CloseDevice" -> "DeviceClosed"
      [] op = "TriggerResync" -> "Resynced"

\* what the native calls of a command can meet: "gone" is a host or device
\* name that find() does not find, "driver" an error of input_devices(),
\* output_devices() or play(), "config" an error of input_stream or
\* output_stream (sample format, channel count, no configuration for the rate)
Faults(op) ==
    CASE op \in {"ListInputs", "ListOutputs"} -> {"none", "gone", "driver"}
      [] op \in {"OpenInput", "OpenOutput"} -> {"none", "gone", "driver", "config"}
      [] OTHER -> {"none"}

\* the faults the worker unwrap()s
unwrap_panics(fault) == fault \in {"gone", "driver"}

\* one turn of the worker's match on a command: whether the thread panics,
\* the value it answers, and the devices map and the id counter afterwards
serve(cmd, fault, devs, counter) ==
    IF unwrap_panics(fault)
    THEN [panic |-> TRUE, value |-> {}, devices |-> {}, counter |-> counter]
    ELSE CASE cmd.op \in {"OpenInput", "OpenOutput"} ->
                IF fault = "config"
                THEN [panic |-> FALSE, value |-> {}, devices |-> devs,
                      counter |-> counter]
                ELSE [panic |-> FALSE, value |-> {counter},
                      devices |-> devs \cup {counter}, counter |-> counter + 1]
           [] cmd.op = "CloseDevice" ->
                [panic |-> FALSE, value |-> {}, devices |-> devs \ {cmd.dev},
                 counter |-> counter]
           [] OTHER ->
                [panic |-> FALSE, value |-> {}, devices |-> devs,
                 counter |-> counter]

IdleClient == [pc |-> "idle", cmd |-> NoCommand, resp |-> NoResponse, n |-> 0]

NothingServed == [cmd |-> NoCommand, fault |-> "none", before |-> {}]

WorkerIdle ==
    /\ chan = <<>>
    /\ running = {}
    /\ workerUp = TRUE
    /\ devices = {}
    /\ deviceCounter = 0
    /\ client = [c \in Callers |-> IdleClient]
    /\ served = NothingServed

(***************************************************************************)
(* Identities (impl_id_gen): generate and restore on the counter of one     *)
(* identity type.  Each is one atomic read-modify-write of the counter, so  *)
(* concurrent calls act in the order of those operations.                   *)
(***************************************************************************)
Max(a, b) == IF a >= b THEN a ELSE b

\* a generate that reads the counter and leaves it
generate_without_add(counter) ==
    [ret |-> {counter}, counter |-> counter, overflow |-> FALSE]

\* generate(): fetch_add(1), which wraps, returning the previous value
generate(counter) ==
    [ret |-> {counter}, counter |-> (counter + 1) % UsizeMod,
     overflow |-> counter + 1 = UsizeMod]

\* a restore that raises the counter to val and not beyond it
restore_fetch_max_val(val, counter, b) ==
    [ret |-> {val}, counter |-> Max(counter, val), overflow |-> FALSE]

\* restore(val): fetch_max(val + 1) and Self(val); val + 1 overflows for
\* val = usize::MAX, which panics with overflow checks and wraps to 0 without
restore(val, counter, b) ==
    IF val + 1 = UsizeMod
    THEN IF b = "debug"
         THEN [ret |-> {}, counter |-> counter, overflow |-> TRUE]
         ELSE [ret |-> {val}, counter |-> Max(counter, 0), overflow |-> TRUE]
    ELSE [ret |-> {val}, counter |-> Max(counter, val + 1), overflow |-> FALSE]

NoIdOp == [op |-> "none", val |-> 0, ret |-> {}]

IdsIdle ==
    /\ idCounter = 0
    /\ generated = {}
    /\ restored = {}
    /\ wrapped = FALSE
    /\ build = "release"
    /\ idOp = NoIdOp

(***************************************************************************)
(* One node and its saved configuration: Node::save and NodeStatic::restore *)
(* of a derived node (Gain, whose slider is saved) and of the two device    *)
(* nodes (Input, Output), with the edits the node's controls make.          *)
(***************************************************************************)
MaxParam == 1

\* cpal::available_hosts(), in the order ListHosts answers
available_hosts == <<"Alsa", "Jack">>

\* HostId::name()
name(host) == IF host = "Alsa" THEN "ALSA" ELSE "JACK"

\* the device names a host lists
DeviceNames == {"mic"}

\* selected_device: Some(name) or None
NoneDevice == "<none>"

SavedTypes == {"Gain", "Input", "Output"}

DeviceTypes == {"Input", "Output"}

PortIds == 0..1

\* NodeStatic::new(id): the members every node starts with; ports are the
\* identities PortStorage::add generated for the type's port names
new(type, id, pin, pout) ==
    [type |-> type, id |-> id,
     ins |-> IF type = "Input" THEN << >> ELSE [n \in {"in"} |-> pin],
     outs |-> IF type = "Output" THEN << >> ELSE [n \in {"out"} |-> pout],
     param |-> 0,
     host |-> available_hosts[1],
     device |-> NoneDevice]

\* load_device(host, name): the device that was open is closed, the named one
\* is opened and becomes selected_device, None if it could not be opened;
\* selected_host is not written
load_device(n, host, device, opened) ==
    [n EXCEPT !.device = IF device # NoneDevice /\ opened THEN device ELSE NoneDevice]

\* Node::save: the configuration structure of the node's type
save(n) ==
    CASE n.type = "Input" ->
           [id |-> n.id, selected_host |-> name(n.host),
            selected_device |-> n.device, outputs |-> n.outs]
      [] n.type = "Output" ->
           [id |-> n.id, selected_host |-> name(n.host),
            selected_device |-> n.device, inputs |-> n.ins]
      [] OTHER ->
           [id |-> n.id, inputs |-> n.ins, outputs |-> n.outs,
            level |-> n.param]

\* the hosts whose name is the saved one: find(|x| x.name() == selected_host)
HostsNamed(nm) ==
    {i \in 1..Len(available_hosts) : name(available_hosts[i]) = nm}

\* NodeStatic::restore(value): new(cfg.id), then the saved members; a device
\* node opens the saved device on the saved host when that host exists
restore_node(type, cfg, opened) ==
    CASE type = "Input" ->
           LET this == new(type, cfg.id, 0, 0)
               found == HostsNamed(cfg.selected_host)
               host == available_hosts[CHOOSE i \in found :
                                         \A j \in found : i <= j]
               loaded == IF found # {}
                         THEN load_device(this, host, cfg.selected_device,
                                          opened)
                         ELSE this
           IN  [loaded EXCEPT !.outs = cfg.outputs]
      [] type = "Output" ->
           LET this == new(type, cfg.id, 0, 0)
               found == HostsNamed(cfg.selected_host)
               host == available_hosts[CHOOSE i \in found :
                                         \A j \in found : i <= j]
               loaded == IF found # {}
                         THEN load_device(this, host, cfg.selected_device,
                                          opened)
                         ELSE this
           IN  [loaded EXCEPT !.ins = cfg.inputs]
      [] OTHER ->
           [new(type, cfg.id, 0, 0) EXCEPT !.ins = cfg.inputs,
                                           !.outs = cfg.outputs,
                                           !.param = cfg.level]

NoConfig == [id |-> 0]

SavedIdle ==
    /\ rnode = new("Gain", 0, 0, 0)
    /\ rcfg = NoConfig
    /\ rop = "none"

(***************************************************************************)
(* Opening a stream on a device (input_stream, output_stream): which of the *)
(* device's supported configurations is taken and at what rate it runs.     *)
(* Rates are in kHz; a configuration is [channels, min, max], the range of  *)
(* sample rates it supports.                                                *)
(***************************************************************************)
MaxConfigs == 2

MaxChannels == 3

CanonicalRate == 48

Rates == {44, CanonicalRate, 96}

SupportedConfigs ==
    {c \in [channels : 1..MaxChannels, min : Rates, max : Rates] :
        c.min <= c.max}

abs_diff(a, b) == IF a >= b THEN a - b ELSE b - a

\* the filter of input_stream: the range holds the canonical rate
Covers(c) == c.min <= CanonicalRate /\ c.max >= CanonicalRate

\* the key output_stream sorts by, compared as tuples are
KeyLess(a, b) ==
    \/ a.channels < b.channels
    \/ /\ a.channels = b.channels
       /\ abs_diff(a.max, CanonicalRate) < abs_diff(b.max, CanonicalRate)

FewerChannels(a, b) == a.channels < b.channels

\* sorted_by_key(..).next(): the stable sort keeps the driver's order among
\* equal keys, so the first of the least is taken; the key is the channel
\* count, or with byRate the pair output_stream sorts by
FirstLeast(cands, cfgs, byRate) ==
    LET less(a, b) == IF byRate THEN KeyLess(a, b) ELSE FewerChannels(a, b)
    IN  CHOOSE i \in cands :
            \A j \in cands :
                /\ ~less(cfgs[j], cfgs[i])
                /\ (j < i => less(cfgs[i], cfgs[j]))

NoStream ==
    [dir |-> "none", ok |-> FALSE, pick |-> 0, channels |-> 0, rate |-> 0,
     resample |-> FALSE]

\* input_stream: of the configurations that hold the canonical rate the one
\* with the fewest channels, run at the canonical rate; an error when there is
\* none or when it has more than two channels
input_stream(cfgs) ==
    LET cands == {i \in 1..Len(cfgs) : Covers(cfgs[i])}
        i == FirstLeast(cands, cfgs, FALSE)
    IN  IF cands = {} \/ cfgs[i].channels > 2
        THEN [NoStream EXCEPT !.dir = "input"]
        ELSE [dir |-> "input", ok |-> TRUE, pick |-> i,
              channels |-> cfgs[i].channels, rate |-> CanonicalRate,
              resample |-> FALSE]

\* an output_stream that filters as input_stream does
output_stream_as_input(cfgs) ==
    [input_stream(cfgs) EXCEPT !.dir = "output"]

\* output_stream: of all configurations the least by (channels, distance of
\* the maximum rate to the canonical rate), run at its maximum rate with a
\* converter from the canonical rate to that rate; an error when there is
\* none or when it has more than two channels
output_stream(cfgs) ==
    LET cands == 1..Len(cfgs)
        i == FirstLeast(cands, cfgs, TRUE)
    IN  IF cands = {} \/ cfgs[i].channels > 2
        THEN [NoStream EXCEPT !.dir = "output"]
        ELSE [dir |-> "output", ok |-> TRUE, pick |-> i,
              channels |-> cfgs[i].channels, rate |-> cfgs[i].max,
              resample |-> cfgs[i].max # CanonicalRate]

StreamsIdle ==
    /\ supported = << >>
    /\ chosen = NoStream

(***************************************************************************)
(* The port registry of one side of a node (PortStorage).  ports maps a     *)
(* name to its PortId, local_indexes a name to its ordinal, portid_indexes  *)
(* a PortId to its ordinal; each is a HashMap, modelled as a function.      *)
(* counter is the PortId counter that PortId::generate reads.               *)
(***************************************************************************)
PortNames == {"in", "a", "b"}

MaxSavedPortId == 2

MaxRegistryIds == 5

\* HashMap::insert: the value of an absent key is added, that of a present
\* key is replaced
insert(m, k, v) == [x \in DOMAIN m \cup {k} |-> IF x = k THEN v ELSE m[x]]

\* PortStorage::default(): three empty maps
PortStorage_default ==
    [ports |-> [k \in {} |-> 0], local_indexes |-> [k \in {} |-> 0],
     portid_indexes |-> [p \in {} |-> 0], counter |-> 0]

\* PortStorageInner::new: keys() and values() walk the map in one order, so
\* order lists the names as both iterate them; collecting (value, i) pairs
\* into a map keeps the last i of a value
PortStorageInner_new(ports, order, counter) ==
    [ports |-> ports,
     local_indexes |-> [k \in DOMAIN ports |->
        (CHOOSE i \in 1..Len(order) : order[i] = k) - 1],
     portid_indexes |-> [p \in {ports[k] : k \in DOMAIN ports} |->
        (CHOOSE i \in 1..Len(order) :
            /\ ports[order[i]] = p
            /\ \A j \in 1..Len(order) : ports[order[j]] = p => j <= i) - 1],
     counter |-> counter]

\* PortStorage::add with the PortId that generate() returned
add(r, pname, pid) ==
    LET idx == Cardinality(DOMAIN r.ports)
    IN  [r EXCEPT !.ports = insert(r.ports, pname, pid),
                  !.local_indexes = insert(r.local_indexes, pname, idx),
                  !.portid_indexes = insert(r.portid_indexes, pid, idx)]

get_id(r, pname) == IF pname \in DOMAIN r.ports THEN {r.ports[pname]} ELSE {}

get_idx(r, pname) ==
    IF pname \in DOMAIN r.local_indexes THEN {r.local_indexes[pname]} ELSE {}

get_portid_idx(r, id) ==
    IF id \in DOMAIN r.portid_indexes THEN {r.portid_indexes[id]} ELSE {}

\* get_all(), which is also what a registry serializes to
get_all(r) == r.ports

get_idxs(r) == r.portid_indexes

\* sorted_by_key on the ordinal (a stable sort), for pairs <<idx, pid>> whose
\* PortIds differ
RECURSIVE sorted_by_idx(_)
sorted_by_idx(S) ==
    IF S = {} THEN <<>>
    ELSE LET m == CHOOSE x \in S :
                    \A y \in S : x[1] < y[1] \/ (x[1] = y[1] /\ x[2] <= y[2])
         IN  <<m>> \o sorted_by_idx(S \ {m})

\* the tail of compute_inputs_for and compute_outputs_for: one entry per
\* pair of get_idxs(), in the order of the ordinals, holding what the routing
\* index v has for the PortId, or nothing
handle_array(r, v) ==
    LET pairs == sorted_by_idx({<<get_idxs(r)[p], p>> : p \in DOMAIN get_idxs(r)})
    IN  [i \in 1..Len(pairs) |->
            IF pairs[i][2] \in DOMAIN v THEN v[pairs[i][2]] ELSE {}]

PortsIdle == reg = PortStorage_default

(***************************************************************************)
(* The ring buffer of a link (rivulet::circular_buffer), in blocks.  q is   *)
(* what the producer has committed and the consumer has not released, oldest*)
(* first; wwin is the writable window the sink was last granted and wbuf    *)
(* what its first block holds; rwin is the readable window the source was   *)
(* last granted.  A block is "data" once the producer wrote it and "stale"  *)
(* while it holds whatever the slots held before.                           *)
(***************************************************************************)
circular_buffer == [q |-> <<>>, wwin |-> 0, wbuf |-> "stale", rwin |-> 0,
                    closed |-> FALSE]

\* the slots no consumer still has to release, ignoring the read window
SinkFreeIgnoringReader(b) == RingCap - (Len(b.q) - b.rwin)

\* the slots of the ring that hold nothing a consumer still has to release
SinkFree(b) == RingCap - Len(b.q)

\* Sink::grant(n) / try_grant(n) can be satisfied
SinkCanGrant(b, n) == SinkFree(b) >= n

\* Sink::grant: the view becomes all the free space there is
SinkGrant(b) == [b EXCEPT !.wwin = SinkFree(b)]

\* view_mut()[..buf_size] is filled with a block
SinkWrite(b) == [b EXCEPT !.wbuf = "data"]

\* Sink::release(k): the first k blocks of the view are committed
SinkRelease(b, k) ==
    [b EXCEPT !.q = @ \o [i \in 1..k |-> IF i = 1 THEN b.wbuf ELSE "stale"],
              !.wwin = @ - k,
              !.wbuf = "stale"]

\* Source::grant(n) / try_grant(n) can be satisfied: n blocks are there, or
\* the sink is gone and the request returns with what is left
SourceCanGrant(b, n) == Len(b.q) >= n \/ b.closed

\* the sink is dropped: nothing more will be committed
SinkDrop(b) == [b EXCEPT !.closed = TRUE, !.wwin = 0, !.wbuf = "stale"]

\* Source::grant: the view becomes everything committed and not released
SourceGrant(b) == [b EXCEPT !.rwin = Len(b.q)]

\* Source::release(k): the first k blocks of the view are given back
SourceRelease(b, k) ==
    [b EXCEPT !.q = SubSeq(@, k + 1, Len(@)), !.rwin = @ - k]

(***************************************************************************)
(* One node task (NodeInstance::start) of a node with one input port and    *)
(* one output port, the SimpleNode loop it runs, and stop().  The other end *)
(* of every link is a peer: another node's task or a device callback, which *)
(* follow the same grant / write / release protocol.                        *)
(***************************************************************************)
LoopLinks == 1..(MaxFanIn + MaxFanOut)

Min(a, b) == IF a < b THEN a ELSE b

At(pc, i) == [task EXCEPT !.pc = pc, !.i = i, !.suspended = FALSE]

\* a perform that goes on to its inputs without waiting for the output links
AfterGrantOutSkipping(i) ==
    IF Len(lins) > 0 THEN At("grant_in", 1) ELSE At("process", 0)

\* where perform goes once the i-th output grant is through
AfterGrantOut(i) ==
    IF i < Len(louts) THEN At("grant_out", i + 1)
    ELSE IF Len(lins) > 0 THEN At("grant_in", 1)
    ELSE At("process", 0)

\* where perform goes once the j-th input grant is through
AfterGrantIn(j) == IF j < Len(lins) THEN At("grant_in", j + 1) ELSE At("process", 0)

\* the copy of the output block into the first link of the output port only
copy_outputs_first_only(r, outs) ==
    [l \in DOMAIN r |-> IF outs # <<>> /\ l = outs[1] THEN SinkWrite(r[l]) ELSE r[l]]

\* the copy of the output block into every link of the output port
copy_outputs(r, outs) ==
    [l \in DOMAIN r |-> IF l \in Range(outs) THEN SinkWrite(r[l]) ELSE r[l]]

\* Input::source is None; an opened device stream holds the blocks its
\* callback pushed, which the model numbers "x", "y", "x", ...
NoDevice == [open |-> FALSE, q |-> <<>>, next |-> "x"]

\* the block of the device stream after block b
NextBlock(b) == IF b = "x" THEN "y" ELSE "x"

\* view_mut()[..buf_size].copy_from_slice(&source.view()[..buf_size])
SinkCopy(b, block) == [b EXCEPT !.wbuf = block]

\* where Input::perform goes once the i-th output link is granted and filled
AfterGrantCopy(i) ==
    IF i < Len(louts) THEN At("grant_copy", i + 1) ELSE At("release", 0)

\* select! polls the cancel receiver only at the head of the loop
CancelOnlyBetweenIterations == task.pc = "select"

\* select! polls the cancel receiver wherever the task awaits
CancelAnywhere == task.pc \notin {"locks", "exited"}

\* select! polls the cancel receiver when the task is polled: at the head of
\* the loop, and when perform is pending at one of its awaits
CanObserveCancel == task.pc = "select" \/ task.suspended

\* the task holds the lock of the node's device handle (Input::source,
\* Output::sink): an Input for the whole of perform, an Output from the end
\* of collect_and_average to the end of perform
HoldsDeviceLock ==
    \/ task.kind = "input" /\ task.pc \in {"grant_source", "grant_copy", "release"}
    \/ task.kind = "output" /\ task.pc \in {"grant_sink", "release_sink"}

\* lock().await of the task succeeds at once: the control thread neither
\* holds the lock nor waits for it (the lock is handed on in arrival order)
DeviceLockFree == stopPc \notin {"load_locking", "load_holding"}

LoopIdle ==
    /\ lins = <<>>
    /\ louts = <<>>
    /\ ring = [l \in LoopLinks |-> circular_buffer]
    /\ task = [pc |-> "exited", i |-> 0, suspended |-> FALSE, exitAt |-> "none",
               present |-> FALSE, merged |-> {}, kind |-> "simple"]
    /\ dev = NoDevice
    /\ cancelled = FALSE
    /\ stopPc = "idle"

(***************************************************************************)
(* The graph orchestrator as a state machine.                               *)
(***************************************************************************)
Apply(g) ==
    /\ nodes' = g.nodes
    /\ links' = g.links
    /\ inputs' = g.inputs
    /\ outputs' = g.outputs
    /\ linkCounter' = g.linkCounter
    /\ taskCounter' = g.taskCounter
    /\ panicked' = g.panicked
    /\ log' = g.log

WithinBounds(g) == g.linkCounter <= MaxLinks /\ g.taskCounter <= MaxTasks

\* the pins the node editor shows
Pins == DOMAIN inputs \cup DOMAIN outputs

GraphInit ==
    /\ nodes = <<>>
    /\ links = <<>>
    /\ inputs = <<>>
    /\ outputs = <<>>
    /\ nodeCounter = 0
    /\ portCounter = 0
    /\ linkCounter = 0
    /\ taskCounter = 0
    /\ panicked = FALSE
    /\ log = <<>>

\* an entry of the "Effects" menu: NodeId::generate, the constructor, add_node
AddNode(kind) ==
    /\ ~panicked
    /\ nodeCounter < MaxNodes
    /\ portCounter + NumInputs(kind) + NumOutputs(kind) <= MaxPorts
    /\ LET ins == [i \in 1..NumInputs(kind) |-> portCounter + i - 1]
           outs == [i \in 1..NumOutputs(kind) |-> portCounter + NumInputs(kind) + i - 1]
       IN  Apply(add_node(G, nodeCounter, kind, ins, outs))
    /\ nodeCounter' = nodeCounter + 1
    /\ portCounter' = portCounter + NumInputs(kind) + NumOutputs(kind)
    /\ UNCHANGED notGraph

\* one frame of the node editor with its events
UpdateNodes(d, c, del) ==
    /\ ~panicked
    /\ <<d, c, del>> # <<NoId, NoCreate, NoId>>
    /\ LET g2 == AfterLinkEdits(G, d, c)
       IN  \E order \in Perms(IF del = NoId THEN {} ELSE DOMAIN nodes \ {del}) :
               /\ WithinBounds(update_nodes(G, d, c, del, order))
               /\ Apply(update_nodes(G, d, c, del, order))
    /\ UNCHANGED <<nodeCounter, portCounter>>
    /\ UNCHANGED notGraph

\* a frame in which the user detached link d
LinkDestroyed(d) == UpdateNodes(d, NoCreate, NoId)

\* a frame in which the user dragged a link from pin a to pin b
LinkCreated(a, b) == UpdateNodes(NoId, [sp |-> a, ep |-> b], NoId)

\* a frame in which the user pressed Close on node del
DeleteNode(del) == UpdateNodes(NoId, NoCreate, del)

\* the orders a restored port registry can number a set of ports in
PortOrders(cfgnodes) ==
    {f \in [DOMAIN cfgnodes -> UNION {{[ins |-> a, outs |-> b] :
                                           a \in Perms(cfgnodes[n].ins),
                                           b \in Perms(cfgnodes[n].outs)} :
                                         n \in DOMAIN cfgnodes}] :
        \A n \in DOMAIN cfgnodes : /\ Range(f[n].ins) = cfgnodes[n].ins
                                    /\ Range(f[n].outs) = cfgnodes[n].outs}

\* the ports the constructors called by the restorers generate and drop
RestoredPorts(cfg) ==
    LET RECURSIVE Sum(_)
        Sum(S) == IF S = {} THEN 0
                  ELSE LET n == CHOOSE x \in S : TRUE
                       IN  NumInputs(RESTORE(cfg.nodes[n].typename))
                           + NumOutputs(RESTORE(cfg.nodes[n].typename))
                           + Sum(S \ {n})
    IN  Sum(DOMAIN cfg.nodes)

\* File > Load of a configuration File > Save wrote. What a load makes of the
\* graph depends on the configuration alone: the one loaded here is the one
\* save_config gives for the current graph.
Load ==
    /\ ~panicked
    /\ portCounter + RestoredPorts(save_config(G)) <= MaxPorts
    /\ \E ports \in PortOrders(save_config(G).nodes),
          linkOrder \in Perms(DOMAIN links), order \in Perms(DOMAIN nodes) :
            /\ WithinBounds(restore_config(G, save_config(G), ports, linkOrder, order))
            /\ Apply(restore_config(G, save_config(G), ports, linkOrder, order))
    /\ portCounter' = portCounter + RestoredPorts(save_config(G))
    /\ UNCHANGED nodeCounter
    /\ UNCHANGED notGraph

\* the "Sync output" button
SyncOutput ==
    /\ ~panicked
    /\ \E order \in Perms(DOMAIN nodes) :
            /\ WithinBounds(sync_output(G, order))
            /\ Apply(sync_output(G, order))
    /\ UNCHANGED <<nodeCounter, portCounter>>
    /\ UNCHANGED notGraph

\* a running node completes one iteration of its loop
NodeIteration(n) ==
    /\ ~panicked
    /\ CanIterate(G, n)
    /\ links' = iterate(G, n).links
    /\ UNCHANGED <<nodes, inputs, outputs, nodeCounter, portCounter, linkCounter,
                   taskCounter, panicked, log>>
    /\ UNCHANGED notGraph

GraphNext ==
    \/ \E kind \in Kinds : AddNode(kind)
    \/ \E d \in DOMAIN links : LinkDestroyed(d)
    \/ \E a \in Pins, b \in Pins : LinkCreated(a, b)
    \/ \E del \in DOMAIN nodes : DeleteNode(del)
    \/ Load
    \/ SyncOutput
    \/ \E n \in DOMAIN nodes : NodeIteration(n)

\* the application after UiContext::new, before any node task exists
Init ==
    GraphInit /\ LoopIdle /\ AvgIdle /\ CallbacksIdle /\ WorkerIdle /\ IdsIdle
    /\ SavedIdle /\ StreamsIdle /\ PortsIdle

Spec == Init /\ [][GraphNext]_vars

\* the drags of one frame that join an output pin and an input pin, from
\* either end, or no drag
Drags ==
    {NoCreate}
      \cup {[sp |-> a, ep |-> b] : a \in DOMAIN outputs, b \in DOMAIN inputs}
      \cup {[sp |-> a, ep |-> b] : a \in DOMAIN inputs, b \in DOMAIN outputs}

\* the frames of update_nodes in which several events fall together: a link
\* detached, a link dragged and a node closed, each or not
FrameNext ==
    \/ \E kind \in Kinds : AddNode(kind)
    \/ \E d \in DOMAIN links \cup {NoId}, del \in DOMAIN nodes \cup {NoId},
          c \in Drags : UpdateNodes(d, c, del)
    \/ Load
    \/ SyncOutput
    \/ \E n \in DOMAIN nodes : NodeIteration(n)

FrameSpec == Init /\ [][FrameNext]_vars

\* building a graph of nodes of several types and loading what was saved
SaveLoadNext ==
    \/ \E kind \in NodeTypes : AddNode(kind)
    \/ \E a \in Pins, b \in Pins : LinkCreated(a, b)
    \/ Load

SaveLoadSpec == Init /\ [][SaveLoadNext]_vars

(***************************************************************************)
(* The graph while it runs: the user adds nodes and joins an output pin to  *)
(* an input pin, and the running nodes iterate.  A node's task, once        *)
(* scheduled, completes an iteration whenever its links allow one.          *)
(***************************************************************************)
\* links and tasks a running graph is followed for
MaxFlowLinks == 3

MaxFlowTasks == 6

\* a frame in which the user dragged a link from output pin a to input pin b
Connect(a, b) ==
    /\ ~panicked
    /\ LET g2 == update_nodes(G, NoId, [sp |-> a, ep |-> b], NoId, <<>>)
       IN  /\ g2.linkCounter <= MaxFlowLinks
           /\ g2.taskCounter <= MaxFlowTasks
           /\ Apply(g2)
    /\ UNCHANGED <<nodeCounter, portCounter>>
    /\ UNCHANGED notGraph

\* the task of node n, if there is such a node, completes one iteration
TaskIteration(n) == n \in DOMAIN nodes /\ NodeIteration(n)

FlowNext ==
    \/ \E kind \in Kinds : AddNode(kind)
    \/ \E a \in DOMAIN outputs, b \in DOMAIN inputs : Connect(a, b)
    \/ \E n \in 0..(MaxNodes - 1) : TaskIteration(n)

FlowSpec == Init /\ [][FlowNext]_vars

\* the tokio runtime schedules every task that can make progress
FlowFairSpec ==
    FlowSpec /\ \A n \in 0..(MaxNodes - 1) : WF_vars(TaskIteration(n))

(***************************************************************************)
(* The node task and stop() as a state machine.                             *)
(***************************************************************************)
\* start() has just spawned the task; the links may hold blocks from before
LoopInit ==
    /\ GraphInit
    /\ AvgIdle
    /\ CallbacksIdle
    /\ WorkerIdle
    /\ IdsIdle
    /\ SavedIdle
    /\ StreamsIdle /\ PortsIdle
    /\ \E kind \in {"simple", "input"}, nIn \in 0..MaxFanIn, nOut \in 0..MaxFanOut :
          /\ nIn + nOut > 0
          /\ kind = "input" => nIn = 0
          /\ lins = [j \in 1..nIn |-> j]
          /\ louts = [k \in 1..nOut |-> MaxFanIn + k]
          /\ task = [pc |-> "locks", i |-> 0, suspended |-> FALSE, exitAt |-> "none",
                     present |-> FALSE, merged |-> {}, kind |-> kind]
          /\ dev \in IF kind = "input" THEN {NoDevice, [NoDevice EXCEPT !.open = TRUE]}
                                       ELSE {NoDevice}
    /\ ring \in [LoopLinks -> {[circular_buffer EXCEPT !.q = [i \in 1..n |-> "data"]] :
                                  n \in 0..RingCap}]
    /\ \A l \in LoopLinks \ (Range(lins) \cup Range(louts)) : ring[l] = circular_buffer
    /\ cancelled = FALSE
    /\ stopPc = "idle"

\* the task takes the lock of its next handle, inputs first
TaskLock ==
    /\ task.pc = "locks"
    /\ task' = IF task.i + 1 < Len(lins) + Len(louts)
               THEN [task EXCEPT !.i = @ + 1]
               ELSE At("select", 0)
    /\ UNCHANGED <<dev, lins, louts, ring, cancelled, stopPc>>
    /\ UNCHANGED notLoop

\* select! polls a fresh perform future
TaskBegin ==
    /\ task.pc = "select"
    /\ task.kind = "simple"
    /\ task' = [AfterGrantOut(0) EXCEPT !.present = FALSE, !.merged = {}]
    /\ UNCHANGED <<dev, lins, louts, ring, cancelled, stopPc>>
    /\ UNCHANGED notLoop

\* select! takes the cancel branch: the perform future is dropped where it is
TaskExit ==
    /\ cancelled
    /\ task.pc # "exited"
    /\ CanObserveCancel
    /\ task' = [task EXCEPT !.pc = "exited", !.i = 0, !.suspended = FALSE,
                             !.exitAt = task.pc]
    /\ UNCHANGED <<dev, lins, louts, ring, cancelled, stopPc>>
    /\ UNCHANGED notLoop

\* step 1: room for a block on the next link of the output port
TaskGrantOut ==
    /\ task.pc = "grant_out"
    /\ LET l == louts[task.i]
       IN  IF SinkCanGrant(ring[l], 1)
           THEN /\ ring' = [ring EXCEPT ![l] = SinkGrant(@)]
                /\ task' = AfterGrantOut(task.i)
           ELSE /\ ~task.suspended
                /\ task' = [task EXCEPT !.suspended = TRUE]
                /\ UNCHANGED ring
    /\ UNCHANGED <<dev, lins, louts, cancelled, stopPc>>
    /\ UNCHANGED notLoop

\* step 2 with try_grant in place of grant: a link that has no block yet is
\* passed over
TaskGrantInTry ==
    /\ task.pc = "grant_in"
    /\ LET l == lins[task.i]
       IN  IF Len(ring[l].q) >= 1
           THEN /\ ring' = [ring EXCEPT ![l] = SourceGrant(@)]
                /\ task' = [AfterGrantIn(task.i) EXCEPT !.present = TRUE,
                                                        !.merged = @ \cup {l}]
           ELSE /\ task' = AfterGrantIn(task.i)
                /\ UNCHANGED ring
    /\ UNCHANGED <<dev, lins, louts, cancelled, stopPc>>
    /\ UNCHANGED notLoop

\* step 2: in_.grant(buf_size).await on the next link of the input port, which
\* is merged if its view holds a block and passed over if it does not
TaskGrantIn ==
    /\ task.pc = "grant_in"
    /\ LET l == lins[task.i]
       IN  IF SourceCanGrant(ring[l], 1)
           THEN /\ ring' = [ring EXCEPT ![l] = SourceGrant(@)]
                /\ task' = IF SourceGrant(ring[l]).rwin < 1
                           THEN AfterGrantIn(task.i)
                           ELSE [AfterGrantIn(task.i) EXCEPT !.present = TRUE,
                                                             !.merged = @ \cup {l}]
           ELSE /\ ~task.suspended
                /\ task' = [task EXCEPT !.suspended = TRUE]
                /\ UNCHANGED ring
    /\ UNCHANGED <<dev, lins, louts, cancelled, stopPc>>
    /\ UNCHANGED notLoop

\* steps 3 and 4: process() and the copy of its output into the output links
TaskProcess ==
    /\ task.pc = "process"
    /\ ring' = copy_outputs(ring, louts)
    /\ task' = At("release_in", 0)
    /\ UNCHANGED <<dev, lins, louts, cancelled, stopPc>>
    /\ UNCHANGED notLoop

\* step 5, inputs: release(buf_size.min(view().len())) on every input link
TaskReleaseIn ==
    /\ task.pc = "release_in"
    /\ ring' = [l \in DOMAIN ring |->
                   IF l \in Range(lins)
                   THEN SourceRelease(ring[l], Min(1, ring[l].rwin))
                   ELSE ring[l]]
    /\ task' = At("release_out", 0)
    /\ UNCHANGED <<dev, lins, louts, cancelled, stopPc>>
    /\ UNCHANGED notLoop

\* step 5, outputs, with release(buf_size) on the first output link only
TaskReleaseOutFirstOnly ==
    /\ task.pc = "release_out"
    /\ ring' = [l \in DOMAIN ring |->
                   IF louts # <<>> /\ l = louts[1] THEN SinkRelease(ring[l], 1) ELSE ring[l]]
    /\ task' = At("select", 0)
    /\ UNCHANGED <<dev, lins, louts, cancelled, stopPc>>
    /\ UNCHANGED notLoop

\* step 5, outputs: release(buf_size) on every output link
TaskReleaseOut ==
    /\ task.pc = "release_out"
    /\ ring' = [l \in DOMAIN ring |->
                   IF l \in Range(louts) THEN SinkRelease(ring[l], 1) ELSE ring[l]]
    /\ task' = At("select", 0)
    /\ UNCHANGED <<dev, lins, louts, cancelled, stopPc>>
    /\ UNCHANGED notLoop

\* Input::perform: the source is locked and, if a device is open, a block of
\* it is requested; with no device perform returns at once
InputGrantSource ==
    /\ task.kind = "input"
    /\ task.pc \in {"select", "grant_source"}
    /\ task.pc = "select" => DeviceLockFree
    /\ dev.open
    /\ IF Len(dev.q) >= 1
       THEN task' = AfterGrantCopy(0)
       ELSE /\ ~task.suspended
            /\ task' = [task EXCEPT !.pc = "grant_source", !.suspended = TRUE]
    /\ UNCHANGED <<dev, lins, louts, ring, cancelled, stopPc>>
    /\ UNCHANGED notLoop

\* Input::perform: room for a block on the next output link, which is then
\* filled with the block of the device
InputGrantCopy ==
    /\ task.pc = "grant_copy"
    /\ LET l == louts[task.i]
       IN  IF SinkCanGrant(ring[l], 1)
           THEN /\ ring' = [ring EXCEPT ![l] = SinkCopy(SinkGrant(@), Head(dev.q))]
                /\ task' = AfterGrantCopy(task.i)
           ELSE /\ ~task.suspended
                /\ task' = [task EXCEPT !.suspended = TRUE]
                /\ UNCHANGED ring
    /\ UNCHANGED <<dev, lins, louts, cancelled, stopPc>>
    /\ UNCHANGED notLoop

\* Input::perform: the block of the device is released, then every output link
InputRelease ==
    /\ task.pc = "release"
    /\ dev' = [dev EXCEPT !.q = Tail(@)]
    /\ ring' = [l \in DOMAIN ring |->
                   IF l \in Range(louts) THEN SinkRelease(ring[l], 1) ELSE ring[l]]
    /\ task' = At("select", 0)
    /\ UNCHANGED <<lins, louts, cancelled, stopPc>>
    /\ UNCHANGED notLoop

\* the callback of the input device pushes its next block, or drops it when
\* there is no room (do_read_1)
DevicePush ==
    /\ dev.open
    /\ dev' = IF Len(dev.q) < RingCap
              THEN [dev EXCEPT !.q = Append(@, dev.next), !.next = NextBlock(@)]
              ELSE [dev EXCEPT !.next = NextBlock(@)]
    /\ UNCHANGED <<lins, louts, ring, task, cancelled, stopPc>>
    /\ UNCHANGED notLoop

\* stop(): the cancel message is sent
StopSend ==
    /\ stopPc = "idle"
    /\ cancelled' = TRUE
    /\ stopPc' = "joining"
    /\ UNCHANGED <<dev, lins, louts, ring, task>>
    /\ UNCHANGED notLoop

\* a stop() that returns once the cancel message is sent, without the join
StopWithoutJoin ==
    /\ stopPc = "joining"
    /\ stopPc' = "returned"
    /\ UNCHANGED <<dev, lins, louts, ring, task, cancelled>>
    /\ UNCHANGED notLoop

\* stop(): block_on(handle) returns once the task has finished
StopJoin ==
    /\ stopPc = "joining"
    /\ task.pc = "exited"
    /\ stopPc' = "returned"
    /\ UNCHANGED <<dev, lins, louts, ring, task, cancelled>>
    /\ UNCHANGED notLoop

\* the producer of an input link is granted room (do_read_1: try_grant)
PeerGrantWrite(l) ==
    /\ ~ring[l].closed
    /\ SinkCanGrant(ring[l], 1)
    /\ ring' = [ring EXCEPT ![l] = SinkGrant(@)]
    /\ UNCHANGED <<dev, lins, louts, task, cancelled, stopPc>>
    /\ UNCHANGED notLoop

\* the producer of an input link writes a block and commits it (do_read_1)
PeerCommit(l) ==
    /\ ~ring[l].closed
    /\ ring[l].wwin >= 1
    /\ ring' = [ring EXCEPT ![l] = SinkRelease(SinkWrite(@), 1)]
    /\ UNCHANGED <<dev, lins, louts, task, cancelled, stopPc>>
    /\ UNCHANGED notLoop

\* the consumer of an output link is granted its backlog (do_write_1: try_grant)
PeerGrantRead(l) ==
    /\ SourceCanGrant(ring[l], 1)
    /\ ring' = [ring EXCEPT ![l] = SourceGrant(@)]
    /\ UNCHANGED <<dev, lins, louts, task, cancelled, stopPc>>
    /\ UNCHANGED notLoop

\* the consumer of an output link releases what it used, or its whole view
\* when it skips ahead (do_write_1)
PeerRelease(l, k) ==
    /\ ring[l].rwin >= 1
    /\ k \in {1, ring[l].rwin}
    /\ ring' = [ring EXCEPT ![l] = SourceRelease(@, k)]
    /\ UNCHANGED <<dev, lins, louts, task, cancelled, stopPc>>
    /\ UNCHANGED notLoop

\* the link of an input was detached: the task of its producer has been
\* restarted without it and the link's sink is dropped, before this task is
\* restarted in turn
PeerDrop(l) ==
    /\ ~ring[l].closed
    /\ ring' = [ring EXCEPT ![l] = SinkDrop(@)]
    /\ UNCHANGED <<dev, lins, louts, task, cancelled, stopPc>>
    /\ UNCHANGED notLoop

TaskStep ==
    \/ TaskLock
    \/ TaskBegin
    \/ TaskGrantOut
    \/ TaskGrantIn
    \/ TaskProcess
    \/ TaskReleaseIn
    \/ TaskReleaseOut
    \/ InputGrantSource
    \/ InputGrantCopy
    \/ InputRelease

LoopNext ==
    \/ TaskStep
    \/ TaskExit
    \/ StopSend
    \/ StopJoin
    \/ DevicePush
    \/ \E l \in Range(lins) : PeerGrantWrite(l)
    \/ \E l \in Range(lins) : PeerCommit(l)
    \/ \E l \in Range(lins) : PeerDrop(l)
    \/ \E l \in Range(louts) : PeerGrantRead(l)
    \/ \E l \in Range(louts), k \in 1..RingCap : PeerRelease(l, k)

LoopSpec == LoopInit /\ [][LoopNext]_vars

\* the runtime polls a ready task, select! picks the branch it polls first at
\* random, and block_on() returns once the task is done
LoopFairSpec ==
    /\ LoopSpec
    /\ WF_vars(TaskStep)
    /\ SF_vars(TaskExit)
    /\ WF_vars(StopJoin)

(***************************************************************************)
(* The task of a device node (Input, Output), the callback of its device    *)
(* and load_device() on the control thread, which changes the device under  *)
(* the lock perform holds.  The other ends of the node's links are peers.   *)
(***************************************************************************)
EndpointInit ==
    /\ GraphInit
    /\ AvgIdle
    /\ CallbacksIdle
    /\ WorkerIdle
    /\ IdsIdle
    /\ SavedIdle
    /\ StreamsIdle /\ PortsIdle
    /\ \E kind \in {"input", "output"}, n \in 1..MaxFanIn :
          /\ lins = IF kind = "output" THEN [j \in 1..n |-> j] ELSE <<>>
          /\ louts = IF kind = "input" THEN [k \in 1..n |-> MaxFanIn + k] ELSE <<>>
          /\ task = [pc |-> "locks", i |-> 0, suspended |-> FALSE, exitAt |-> "none",
                     present |-> FALSE, merged |-> {}, kind |-> kind]
    /\ dev \in {NoDevice, [NoDevice EXCEPT !.open = TRUE]}
    /\ ring \in [LoopLinks -> {[circular_buffer EXCEPT !.q = [i \in 1..n |-> "data"]] :
                                  n \in 0..RingCap}]
    /\ \A l \in LoopLinks \ (Range(lins) \cup Range(louts)) : ring[l] = circular_buffer
    /\ cancelled = FALSE
    /\ stopPc = "idle"

\* Input::perform with no device: the source is locked, found None, and
\* perform returns
InputNoSource ==
    /\ task.kind = "input"
    /\ task.pc = "select"
    /\ DeviceLockFree
    /\ ~dev.open
    /\ UNCHANGED vars

\* Output::perform begins with collect_and_average on the links of "in"
OutputBegin ==
    /\ task.kind = "output"
    /\ task.pc = "select"
    /\ task' = [At("grant_in", 1) EXCEPT !.present = FALSE, !.merged = {}]
    /\ UNCHANGED <<dev, lins, louts, ring, cancelled, stopPc>>
    /\ UNCHANGED notLoop

\* an Output::perform that releases its input links when it finds no sink
OutputLockSinkReleasing ==
    /\ task.kind = "output"
    /\ task.pc = "process"
    /\ DeviceLockFree
    /\ IF dev.open
       THEN task' = At("grant_sink", 0) /\ UNCHANGED ring
       ELSE /\ task' = At("select", 0)
            /\ ring' = [l \in DOMAIN ring |->
                           IF l \in Range(lins) /\ ring[l].rwin >= 1
                           THEN SourceRelease(ring[l], 1)
                           ELSE ring[l]]
    /\ UNCHANGED <<dev, lins, louts, cancelled, stopPc>>
    /\ UNCHANGED notLoop

\* Output::perform locks the sink: with a device it goes on to request room
\* in the device's ring, with none it returns
OutputLockSink ==
    /\ task.kind = "output"
    /\ task.pc = "process"
    /\ DeviceLockFree
    /\ task' = IF dev.open THEN At("grant_sink", 0) ELSE At("select", 0)
    /\ UNCHANGED <<dev, lins, louts, ring, cancelled, stopPc>>
    /\ UNCHANGED notLoop

\* Output::perform: sink.grant(BUF_SIZE).await on the ring of the device
OutputGrantSink ==
    /\ task.pc = "grant_sink"
    /\ IF Len(dev.q) < RingCap
       THEN task' = At("release_sink", 0)
       ELSE /\ ~task.suspended
            /\ task' = [task EXCEPT !.suspended = TRUE]
    /\ UNCHANGED <<dev, lins, louts, ring, cancelled, stopPc>>
    /\ UNCHANGED notLoop

\* Output::perform: the merged block is committed to the device and every
\* input link whose view holds a block is released
OutputRelease ==
    /\ task.pc = "release_sink"
    /\ dev' = [dev EXCEPT !.q = Append(@, "data")]
    /\ ring' = [l \in DOMAIN ring |->
                   IF l \in Range(lins) /\ ring[l].rwin >= 1
                   THEN SourceRelease(ring[l], 1)
                   ELSE ring[l]]
    /\ task' = At("select", 0)
    /\ UNCHANGED <<lins, louts, cancelled, stopPc>>
    /\ UNCHANGED notLoop

\* the callback of the output device takes a block, if there is one
DevicePull ==
    /\ task.kind = "output"
    /\ dev.open
    /\ dev.q # <<>>
    /\ dev' = [dev EXCEPT !.q = Tail(@)]
    /\ UNCHANGED <<lins, louts, ring, task, cancelled, stopPc>>
    /\ UNCHANGED notLoop

\* the callback of the input device
InputDevicePush == task.kind = "input" /\ DevicePush

\* load_device on the control thread: blocking_lock() is entered
LoadDeviceLock ==
    /\ stopPc = "idle"
    /\ stopPc' = "load_locking"
    /\ UNCHANGED <<dev, lins, louts, ring, task, cancelled>>
    /\ UNCHANGED notLoop

\* blocking_lock() returns once perform does not hold the lock
LoadDeviceAcquire ==
    /\ stopPc = "load_locking"
    /\ ~HoldsDeviceLock
    /\ stopPc' = "load_holding"
    /\ UNCHANGED <<dev, lins, louts, ring, task, cancelled>>
    /\ UNCHANGED notLoop

\* load_device under the lock: the current device is closed, the selected
\* one is opened and stored if that succeeded, None is stored otherwise, and
\* the lock is dropped
LoadDeviceStore(opened) ==
    /\ stopPc = "load_holding"
    /\ dev' = IF opened THEN [NoDevice EXCEPT !.open = TRUE] ELSE NoDevice
    /\ stopPc' = "idle"
    /\ UNCHANGED <<lins, louts, ring, task, cancelled>>
    /\ UNCHANGED notLoop

EndpointTaskStep ==
    \/ TaskLock
    \/ InputNoSource
    \/ InputGrantSource
    \/ InputGrantCopy
    \/ InputRelease
    \/ OutputBegin
    \/ TaskGrantIn
    \/ OutputLockSink
    \/ OutputGrantSink
    \/ OutputRelease

EndpointNext ==
    \/ EndpointTaskStep
    \/ InputDevicePush
    \/ DevicePull
    \/ LoadDeviceLock
    \/ LoadDeviceAcquire
    \/ \E opened \in BOOLEAN : LoadDeviceStore(opened)
    \/ \E l \in Range(lins) : PeerGrantWrite(l)
    \/ \E l \in Range(lins) : PeerCommit(l)
    \/ \E l \in Range(lins) : PeerDrop(l)
    \/ \E l \in Range(louts) : PeerGrantRead(l)
    \/ \E l \in Range(louts), k \in 1..RingCap : PeerRelease(l, k)

EndpointSpec == EndpointInit /\ [][EndpointNext]_vars

\* the runtime polls a ready task, the devices keep calling back, and
\* blocking_lock() returns once the lock is free; the nodes at the other
\* ends of the links run or not
EndpointFairSpec ==
    /\ EndpointSpec
    /\ WF_vars(EndpointTaskStep)
    /\ WF_vars(InputDevicePush)
    /\ WF_vars(DevicePull)
    /\ WF_vars(LoadDeviceAcquire)

(***************************************************************************)
(* One call of collect_and_average as a state machine.                      *)
(***************************************************************************)
AvgInit ==
    /\ GraphInit
    /\ LoopIdle
    /\ CallbacksIdle
    /\ WorkerIdle
    /\ IdsIdle
    /\ SavedIdle
    /\ StreamsIdle /\ PortsIdle
    /\ avgIn \in UNION {[1..n -> Views] : n \in 0..MaxFanIn}
    /\ avgOut = NotAveraged

\* perform merges the port's links into the zeroed block of the port
Average ==
    /\ ~avgOut.done
    /\ avgOut' = collect_and_average([i \in 1..BlockLen |-> 0], avgIn)
    /\ UNCHANGED avgIn
    /\ UNCHANGED notAvg

AvgNext == Average

AvgSpec == AvgInit /\ [][AvgNext]_vars

(***************************************************************************)
(* The device callbacks, the nodes at the other end of their rings and      *)
(* TriggerResync as a state machine.                                        *)
(***************************************************************************)
\* the devices have just been opened
CallbacksInit ==
    /\ GraphInit
    /\ LoopIdle
    /\ AvgIdle
    /\ CallbacksIdle
    /\ WorkerIdle
    /\ IdsIdle
    /\ SavedIdle
    /\ StreamsIdle /\ PortsIdle

\* the callback of the output device asks for the samples of input_len source
\* samples; the resampler calls next() on its source about input_len times
OutputCallback(input_len, taken) ==
    /\ LET r == do_write(input_len, outFill, catchup,
                         CountingSignalIndex(taken, outFill))
       IN  /\ cb' = r
           /\ outFill' = outFill - r.moved
           /\ catchup' = r.after
    /\ UNCHANGED inFill
    /\ UNCHANGED notCallbacks

\* Output::perform commits a block to the ring of the output device
OutputPush(n) ==
    /\ SampleCap - outFill >= n
    /\ outFill' = outFill + n
    /\ cb' = NoCallback
    /\ UNCHANGED <<inFill, catchup>>
    /\ UNCHANGED notCallbacks

\* the callback of the input device delivers len samples
InputCallback(len) ==
    /\ LET r == do_read(len, SampleCap - inFill)
       IN  /\ cb' = r
           /\ inFill' = inFill + r.moved
    /\ UNCHANGED <<outFill, catchup>>
    /\ UNCHANGED notCallbacks

\* the callback of a stereo input device delivers data_len interleaved samples
InputCallback2(data_len) ==
    /\ LET r == do_read_2(data_len, SampleCap - inFill)
       IN  /\ cb' = r
           /\ inFill' = inFill + r.moved
    /\ UNCHANGED <<outFill, catchup>>
    /\ UNCHANGED notCallbacks

\* Input::perform releases a block of the ring of the input device
InputPull(n) ==
    /\ inFill >= n
    /\ inFill' = inFill - n
    /\ cb' = NoCallback
    /\ UNCHANGED <<outFill, catchup>>
    /\ UNCHANGED notCallbacks

\* the device worker serves TriggerResync
TriggerResync ==
    /\ catchup' = (catchup + ResyncStep) % U8
    /\ cb' = NoCallback
    /\ UNCHANGED <<outFill, inFill>>
    /\ UNCHANGED notCallbacks

\* the sizes the hardware calls back with: the stream is built with the
\* driver's default buffer size, so nothing keeps them within the ring
HardwareSizes == 1..MaxNeed \cup {SampleCap + 1}

CallbacksNext ==
    \/ \E b \in HardwareSizes, taken \in 0..(MaxNeed + 1) :
           /\ GrantOverflow(b) \/ (b - 1 <= taken /\ taken <= b + 1)
           /\ OutputCallback(b, taken)
    \/ \E n \in 1..MaxNeed : OutputPush(n)
    \/ \E len \in HardwareSizes : InputCallback(len)
    \/ \E len \in HardwareSizes : InputCallback2(2 * len)
    \/ \E n \in 1..MaxNeed : InputPull(n)
    \/ TriggerResync

CallbacksSpec == CallbacksInit /\ [][CallbacksNext]_vars

(***************************************************************************)
(* The device worker and the callers of invoke() as a state machine.        *)
(***************************************************************************)
WorkerInit ==
    /\ GraphInit
    /\ LoopIdle
    /\ AvgIdle
    /\ CallbacksIdle
    /\ WorkerIdle
    /\ IdsIdle
    /\ SavedIdle
    /\ StreamsIdle /\ PortsIdle

Request(c) == [caller |-> c, cmd |-> client[c].cmd]

\* open commands that were invoked and not yet served
OpensPending ==
    Cardinality({c \in Callers :
        /\ client[c].pc \in {"send", "recv"}
        /\ client[c].resp = NoResponse
        /\ client[c].cmd.op \in {"OpenInput", "OpenOutput"}})

\* invoke(cmd): the caller makes its oneshot channel
Invoke(c, cmd) ==
    /\ client[c].pc = "idle"
    /\ cmd.op \in {"OpenInput", "OpenOutput"} =>
           deviceCounter + OpensPending < MaxDevices
    /\ client' = [client EXCEPT ![c] =
           [pc |-> "send", cmd |-> cmd, resp |-> NoResponse, n |-> 0]]
    /\ UNCHANGED <<chan, running, workerUp, devices, deviceCounter, served>>
    /\ UNCHANGED notWorker

\* DEVICE_CMD_CHAN.send(..).unwrap(): waits for room in the channel, fails
\* when the worker has dropped the receiver
Send(c) ==
    /\ client[c].pc = "send"
    /\ IF workerUp
       THEN /\ Len(chan) < 1
            /\ chan' = Append(chan, Request(c))
            /\ client' = [client EXCEPT ![c].pc = "recv"]
       ELSE /\ chan' = chan
            /\ client' = [client EXCEPT ![c].pc = "panicked"]
    /\ UNCHANGED <<running, workerUp, devices, deviceCounter, served>>
    /\ UNCHANGED notWorker

\* resp_out.recv().unwrap(): returns the response, fails when the sender was
\* dropped without one
Recv(c) ==
    /\ client[c].pc = "recv"
    /\ IF client[c].resp # NoResponse
       THEN client' = [client EXCEPT ![c].pc = "idle"]
       ELSE /\ Request(c) \notin Range(chan)
            /\ Request(c) \notin running
            /\ client' = [client EXCEPT ![c].pc = "panicked"]
    /\ UNCHANGED <<chan, running, workerUp, devices, deviceCounter, served>>
    /\ UNCHANGED notWorker

\* a worker that takes the next command while one is being served
WorkerRecvAnyTime ==
    /\ workerUp
    /\ chan # <<>>
    /\ running' = running \cup {Head(chan)}
    /\ chan' = Tail(chan)
    /\ UNCHANGED <<workerUp, devices, deviceCounter, client, served>>
    /\ UNCHANGED notWorker

\* for (cmd, resp_chan) in receiver: the worker takes the next command
WorkerRecv ==
    /\ workerUp
    /\ running = {}
    /\ chan # <<>>
    /\ running' = {Head(chan)}
    /\ chan' = Tail(chan)
    /\ UNCHANGED <<workerUp, devices, deviceCounter, client, served>>
    /\ UNCHANGED notWorker

\* the body of the worker's loop for the command r; a panic drops the
\* receiver, the devices map and every response sender the worker holds
WorkerServe(r, fault) ==
    /\ workerUp
    /\ r \in running
    /\ fault \in Faults(r.cmd.op)
    /\ LET s == serve(r.cmd, fault, devices, deviceCounter)
       IN  /\ served' = [cmd |-> r.cmd, fault |-> fault, before |-> devices]
           /\ devices' = s.devices
           /\ deviceCounter' = s.counter
           /\ workerUp' = ~s.panic
           /\ IF s.panic
              THEN /\ running' = {}
                   /\ chan' = <<>>
                   /\ client' = client
              ELSE /\ running' = running \ {r}
                   /\ chan' = chan
                   /\ client' = [client EXCEPT ![r.caller] =
                          [@ EXCEPT !.n = @ + 1,
                                    !.resp = [variant |-> Variant(r.cmd.op),
                                              value |-> s.value,
                                              caller |-> r.caller,
                                              cmd |-> r.cmd]]]
    /\ UNCHANGED notWorker

WorkerStep ==
    \/ WorkerRecv
    \/ \E r \in running, fault \in {"none", "gone", "driver", "config"} :
           WorkerServe(r, fault)

WorkerNext ==
    \/ \E c \in Callers, cmd \in DeviceCommand : Invoke(c, cmd)
    \/ \E c \in Callers : Send(c)
    \/ \E c \in Callers : Recv(c)
    \/ WorkerStep

WorkerSpec == WorkerInit /\ [][WorkerNext]_vars

\* the worker thread and the callers are scheduled, and a caller that waits
\* for room in the channel gets it when there is room again and again
WorkerFairSpec ==
    /\ WorkerSpec
    /\ WF_vars(WorkerStep)
    /\ \A c \in Callers : SF_vars(Send(c)) /\ WF_vars(Recv(c))

(***************************************************************************)
(* The identity counter as a state machine: any thread may call generate    *)
(* or restore at any time.                                                  *)
(***************************************************************************)
IdsInit ==
    /\ GraphInit
    /\ LoopIdle
    /\ AvgIdle
    /\ CallbacksIdle
    /\ WorkerIdle
    /\ SavedIdle
    /\ StreamsIdle /\ PortsIdle
    /\ idCounter = 0
    /\ generated = {}
    /\ restored = {}
    /\ wrapped = FALSE
    /\ build \in {"debug", "release"}
    /\ idOp = NoIdOp

Generate ==
    /\ LET g == generate(idCounter)
       IN  /\ idCounter' = g.counter
           /\ generated' = generated \cup g.ret
           /\ wrapped' = (wrapped \/ g.overflow)
           /\ idOp' = [op |-> "generate", val |-> 0, ret |-> g.ret]
    /\ UNCHANGED <<restored, build>>
    /\ UNCHANGED notIds

Restore(val) ==
    /\ LET r == restore(val, idCounter, build)
       IN  /\ idCounter' = r.counter
           /\ restored' = restored \cup r.ret
           /\ wrapped' = (wrapped \/ r.overflow)
           /\ idOp' = [op |-> "restore", val |-> val, ret |-> r.ret]
    /\ UNCHANGED <<generated, build>>
    /\ UNCHANGED notIds

IdsNext ==
    \/ Generate
    \/ \E val \in 0..(UsizeMod - 1) : Restore(val)

IdsSpec == IdsInit /\ [][IdsNext]_vars

(***************************************************************************)
(* The specification of saving and restoring one node.                      *)
(***************************************************************************)
\* a node of any type as add_node built it
SavedInit ==
    /\ GraphInit /\ LoopIdle /\ AvgIdle /\ CallbacksIdle /\ WorkerIdle
    /\ IdsIdle /\ StreamsIdle /\ PortsIdle
    /\ \E type \in SavedTypes, id \in 0..1, pin \in PortIds, pout \in PortIds :
          rnode = new(type, id, pin, pout)
    /\ rcfg = NoConfig
    /\ rop = "none"

\* render: another host is picked in the node's host box
SelectHost(host) ==
    /\ rnode.type \in DeviceTypes
    /\ rnode.host # host
    /\ rnode' = [rnode EXCEPT !.host = host]
    /\ rop' = "edit"
    /\ UNCHANGED <<rcfg, notSaved>>

\* render: another device is picked in the node's device box
SelectDevice(device, opened) ==
    /\ rnode.type \in DeviceTypes
    /\ rnode.device # device
    /\ rnode' = load_device(rnode, rnode.host, device, opened)
    /\ rop' = "edit"
    /\ UNCHANGED <<rcfg, notSaved>>

\* render: the slider of a derived node is moved
SetParam(v) ==
    /\ rnode.type \notin DeviceTypes
    /\ rnode.param # v
    /\ rnode' = [rnode EXCEPT !.param = v]
    /\ rop' = "edit"
    /\ UNCHANGED <<rcfg, notSaved>>

\* the node is saved
SaveNode ==
    /\ rcfg' = save(rnode)
    /\ rop' = "save"
    /\ UNCHANGED <<rnode, notSaved>>

\* the node is rebuilt from what was saved last; the saved device opens or,
\* when it is gone or busy, does not
RestoreNode(opened) ==
    /\ rop = "save"
    /\ opened \/ (rnode.type \in DeviceTypes /\ rcfg.selected_device # NoneDevice)
    /\ rnode' = restore_node(rnode.type, rcfg, opened)
    /\ rop' = IF opened THEN "restore" ELSE "restore_unopened"
    /\ UNCHANGED <<rcfg, notSaved>>

SavedNext ==
    \/ \E host \in Range(available_hosts) : SelectHost(host)
    \/ \E device \in DeviceNames \cup {NoneDevice}, opened \in BOOLEAN :
          SelectDevice(device, opened)
    \/ \E v \in 0..MaxParam : SetParam(v)
    \/ SaveNode
    \/ \E opened \in BOOLEAN : RestoreNode(opened)

SavedSpec == SavedInit /\ [][SavedNext]_vars

(***************************************************************************)
(* The specification of stream opening: a device with any list of supported *)
(* configurations, on which an input or an output stream is opened.         *)
(***************************************************************************)
StreamsInit ==
    /\ GraphInit /\ LoopIdle /\ AvgIdle /\ CallbacksIdle /\ WorkerIdle
    /\ IdsIdle /\ SavedIdle /\ PortsIdle
    /\ \E n \in 0..MaxConfigs : supported \in [1..n -> SupportedConfigs]
    /\ chosen = NoStream

\* OpenInput: input_stream on the device
OpenInputStream ==
    /\ chosen' = input_stream(supported)
    /\ UNCHANGED <<supported, notStreams>>

\* OpenOutput: output_stream on the device
OpenOutputStream ==
    /\ chosen' = output_stream(supported)
    /\ UNCHANGED <<supported, notStreams>>

StreamsNext == OpenInputStream \/ OpenOutputStream

StreamsSpec == StreamsInit /\ [][StreamsNext]_vars

(***************************************************************************)
(* The specification of one port registry: it is built from a saved map of  *)
(* names to distinct PortIds, iterated in any order, or starts empty, and   *)
(* ports are added to it under any name.                                    *)
(***************************************************************************)
SavedPortMaps ==
    UNION {{m \in [S -> 0..MaxSavedPortId] : \A a, b \in S : m[a] = m[b] => a = b}
           : S \in SUBSET PortNames}

\* PortId::restore leaves the counter above every restored PortId
CounterAfter(m) ==
    IF DOMAIN m = {} THEN 0
    ELSE 1 + CHOOSE x \in {m[k] : k \in DOMAIN m} : \A k \in DOMAIN m : m[k] <= x

PortsInit ==
    /\ GraphInit /\ LoopIdle /\ AvgIdle /\ CallbacksIdle /\ WorkerIdle
    /\ IdsIdle /\ SavedIdle /\ StreamsIdle
    /\ \E m \in SavedPortMaps : \E order \in Perms(DOMAIN m) :
          reg = PortStorageInner_new(m, order, CounterAfter(m))

\* PortStorage::add(name).  PortId::generate() returns the counter and adds one
\* to it; the counter stays below MaxRegistryIds, far from where it wraps
Add(pname) ==
    /\ reg.counter < MaxRegistryIds
    /\ reg' = [add(reg, pname, reg.counter) EXCEPT !.counter = reg.counter + 1]
    /\ UNCHANGED notPorts

PortsNext == \E pname \in PortNames : Add(pname)

PortsSpec == PortsInit /\ [][PortsNext]_vars

(***************************************************************************)
(* Properties of the graph orchestrator.                                    *)
(***************************************************************************)
\* the links that start or end at node n
Incident(n) == {l \in DOMAIN links : links[l].lhs[1] = n \/ links[l].rhs[1] = n}

\* the nodes restart() was called on by the handler that produced the log
RestartedIn(lg) == {lg[i][2] : i \in {j \in 1..Len(lg) : lg[j][1] = "restart"}}

LogHas(lg, what) == \E i \in 1..Len(lg) : lg[i][1] = what

\* C3: every link of the link map is in exactly one set of the outputs index (that
\* of its source port) and in exactly one set of the inputs index (that of its
\* destination port), and the index sets hold no id that is not in the link map.
C3_LinkIndexed ==
    /\ \A l \in DOMAIN links :
          /\ {k \in DOMAIN outputs : l \in outputs[k]} = {links[l].lhs}
          /\ {k \in DOMAIN inputs : l \in inputs[k]} = {links[l].rhs}
    /\ \A k \in DOMAIN outputs : outputs[k] \subseteq DOMAIN links
    /\ \A k \in DOMAIN inputs : inputs[k] \subseteq DOMAIN links

\* a link is indexed while a handler has removed another link and a node
C3_Witness ==
    /\ links # <<>>
    /\ LogHas(log, "remove_node")
    /\ LogHas(log, "unindex")
    /\ \E k \in DOMAIN inputs : inputs[k] # {}

\* what an edit of one link leaves alone: E is the set of the link's endpoint nodes
EditFrame(E) ==
    /\ RestartedIn(log') = E
    /\ \A n \in DOMAIN nodes \ E :
          /\ n \in DOMAIN nodes'
          /\ nodes'[n].task = nodes[n].task
          /\ \A l \in Incident(n) : l \in DOMAIN links' /\ links'[l] = links[l]

\* the connection attempt is one input pin and one output pin, in either order
Connectable(a, b) ==
    \/ a \in DOMAIN inputs /\ b \in DOMAIN outputs
    \/ b \in DOMAIN inputs /\ a \in DOMAIN outputs

\* C4: connecting or disconnecting one link restarts exactly the two endpoint nodes
\* of that link; every other node keeps its task, and the buffers of the links of
\* every other node keep their contents.
C4_RestartOnlyEndpoints ==
    [][/\ \A d \in DOMAIN links :
            (d \notin DOMAIN links' /\ LinkDestroyed(d))
                => EditFrame({links[d].lhs[1], links[d].rhs[1]})
       /\ \A a \in Pins, b \in Pins :
            (Connectable(a, b) /\ linkCounter' # linkCounter /\ LinkCreated(a, b))
                => EditFrame({a[1], b[1]})]_vars

\* a link was removed between two nodes while a third node, not restarted, runs the
\* task it had and holds a block in one of its links
C4_Witness ==
    /\ LogHas(log, "remove_link")
    /\ \E n \in DOMAIN nodes \ RestartedIn(log) :
          /\ nodes[n].task.id # 0
          /\ \E l \in Incident(n) : links[l].fill >= 1

\* the nodes at the other end of the links of node n
OtherEnds(n) ==
    {m \in DOMAIN nodes \ {n} :
        \E l \in DOMAIN links : /\ n \in {links[l].lhs[1], links[l].rhs[1]}
                                /\ m \in {links[l].lhs[1], links[l].rhs[1]}}

\* node n occurs nowhere in the primed graph
GoneAfter(n) ==
    /\ n \notin DOMAIN nodes'
    /\ \A k \in DOMAIN inputs' \cup DOMAIN outputs' : k[1] # n
    /\ \A l \in DOMAIN links' : links'[l].lhs[1] # n /\ links'[l].rhs[1] # n

\* C5: deleting a node restarts exactly the nodes at the other end of its links,
\* removes every such link from the link map and from both indices, and removes
\* the node and its index entries, so that its id occurs nowhere in the graph.
C5_DeleteNode ==
    [][\A n \in DOMAIN nodes :
          (n \notin DOMAIN nodes' /\ DeleteNode(n)) =>
              /\ RestartedIn(log') = OtherEnds(n)
              /\ \A l \in Incident(n) :
                    /\ l \notin DOMAIN links'
                    /\ \A k \in DOMAIN inputs' : l \notin inputs'[k]
                    /\ \A k \in DOMAIN outputs' : l \notin outputs'[k]
              /\ GoneAfter(n)]_vars

\* a node with links to two other nodes was deleted and those two were restarted
C5_Witness ==
    /\ LogHas(log, "remove_node")
    /\ Cardinality(RestartedIn(log)) = 2
    /\ Cardinality(DOMAIN nodes) = 2

\* C6: a connection attempt adds a link exactly when one pin is an input and the
\* other an output, the link then runs from the output pin to the input pin; any
\* other attempt leaves nodes, tasks, links and both indices unchanged.
C6_ConnectValidation ==
    [][\A a \in Pins, b \in Pins :
          (log' # log /\ LinkCreated(a, b)) =>
              IF Connectable(a, b)
              THEN \E l \in DOMAIN links' \ DOMAIN links :
                      /\ DOMAIN links' = DOMAIN links \cup {l}
                      /\ {links'[l].lhs, links'[l].rhs} = {a, b}
                      /\ links'[l].lhs \in DOMAIN outputs
                      /\ links'[l].rhs \in DOMAIN inputs
              ELSE /\ nodes' = nodes /\ links' = links
                   /\ inputs' = inputs /\ outputs' = outputs]_vars

\* an attempt was rejected in a graph that has a link and a running node
C6_Witness ==
    /\ LogHas(log, "rejected")
    /\ links # <<>>
    /\ \E n \in DOMAIN nodes : nodes[n].task.id # 0

\* C7: a node has a task only if it has an incident link; a node without links is
\* stopped; a node is either stopped or runs one task that was spawned.
C7_RunningOnlyIfLinked ==
    \A n \in DOMAIN nodes :
        /\ nodes[n].task.id # 0 => Incident(n) # {}
        /\ Incident(n) = {} => nodes[n].task = NoTask
        /\ nodes[n].task = NoTask \/ nodes[n].task.id \in 1..taskCounter

\* a node whose last link was removed was restarted and stays stopped
C7_Witness ==
    \E n \in DOMAIN nodes :
        /\ Incident(n) = {}
        /\ nodes[n].task = NoTask
        /\ \E i \in 1..Len(log) : log[i] = <<"abandon", n>>
        /\ LogHas(log, "remove_link")

(***************************************************************************)
(* Properties of the ring-buffer protocol, the node loop and stop().        *)
(***************************************************************************)
\* C1: the readable window a consumer holds never reaches past what the
\* producer has committed, and every block in it is one the producer wrote
\* before committing it
C1_ConsumerSeesOnlyCommitted ==
    \A l \in LoopLinks :
        /\ ring[l].rwin <= Len(ring[l].q)
        /\ \A i \in 1..ring[l].rwin : ring[l].q[i] # "stale"

\* the node task holds a window over a block its producer committed after the
\* task started, and a consumer holds a window over a block the task committed
C1_Witness ==
    /\ task.pc = "process"
    /\ \E l \in Range(lins) : ring[l].rwin >= 1
    /\ \E l \in Range(louts) : ring[l].rwin >= 1 /\ ring[l].wwin >= 1

\* C2: the writable window a producer holds never contains a slot that holds
\* a block the consumer has not released
C2_ProducerGetsOnlyReleased ==
    \A l \in LoopLinks : ring[l].wwin + Len(ring[l].q) <= RingCap

\* a producer holds a window over a slot its consumer released, while the
\* consumer of another link still holds a block in its window
C2_Witness ==
    /\ \E l \in Range(lins) : ring[l].wwin >= 1 /\ task.pc = "release_out"
    /\ \E l \in Range(louts) : ring[l].rwin >= 1

\* C8 as stated: the task stops only between iterations of its loop
C8_StopsOnlyBetweenIterations ==
    [][task.kind = "simple" /\ task'.pc = "exited" /\ task.pc # "exited" =>
         task.pc = "select"]_vars

\* C8: the task stops only between iterations or while it is suspended in
\* step 1 or step 2, and then it has copied and released nothing for the
\* block; once step 2 is through, the block is processed, copied and released
\* before the task stops
C8_StopsOnlyWhereSuspended ==
    [][task.kind = "simple" /\ task'.pc = "exited" /\ task.pc # "exited" =>
         /\ \/ task.pc = "select"
            \/ task.pc \in {"grant_out", "grant_in"} /\ task.suspended
         /\ \A l \in Range(louts) : ring[l].wbuf = "stale"
         /\ ring' = ring]_vars

\* the task was cancelled while suspended in step 1 and stopped there, with a
\* block still waiting on an input link
C8_Witness ==
    /\ task.kind = "simple"
    /\ task.pc = "exited"
    /\ task.exitAt = "grant_out"
    /\ \E l \in Range(lins) : Len(ring[l].q) >= 1

\* C9: once stop() has sent the cancel message it returns
C9_StopReturns == (stopPc = "joining") ~> (stopPc = "returned")

\* stop() returned for a task that was suspended on an input link whose
\* producer had committed nothing
C9_Witness ==
    /\ stopPc = "returned"
    /\ task.exitAt = "grant_in"
    /\ \E l \in Range(lins) : Len(ring[l].q) = 0 /\ ring[l].wwin = 0

(***************************************************************************)
(* Properties of fan-in averaging.                                          *)
(***************************************************************************)
\* the links of the port that present a whole block
Contributing == {j \in 1..Len(avgIn) : Len(avgIn[j]) >= BlockLen}

RECURSIVE SumAt(_, _)
SumAt(J, i) ==
    IF J = {} THEN 0
    ELSE LET j == CHOOSE x \in J : TRUE IN avgIn[j][i] + SumAt(J \ {j}, i)

\* C10 as stated: the merged block is the element-wise arithmetic mean of the
\* blocks of the contributing links
C10_MergedIsMean ==
    avgOut.done /\ Contributing # {} =>
        \A i \in 1..BlockLen :
            FracEq(avgOut.output[i],
                   [num |-> SumAt(Contributing, i), den |-> Cardinality(Contributing)])

Produced == IF task.kind = "input" /\ dev.q # <<>> THEN Head(dev.q) ELSE "data"

\* C12: the blocks committed to the links of an output port change only by
\* the task committing the block it produced to every link of the port at
\* once, one copy each, and by a consumer releasing blocks from the front, so
\* every consumer reads the same blocks in the same order
C12_FanOutDuplicates ==
    [][\A l \in Range(louts) :
          \/ ring'[l].q = ring[l].q
          \/ \E k \in 1..Len(ring[l].q) :
                 ring'[l].q = SubSeq(ring[l].q, k + 1, Len(ring[l].q))
          \/ /\ task.pc \in {"release_out", "release"}
             /\ \A m \in Range(louts) :
                    ring'[m].q = Append(ring[m].q, Produced)]_vars

\* both links of an Input node's output port hold the second block of the
\* device stream as their newest, and both their consumers hold a window
C12_Witness ==
    /\ Len(louts) >= 2
    /\ task.pc = "select"
    /\ \A l \in Range(louts) :
           /\ Len(ring[l].q) >= 1
           /\ ring[l].q[Len(ring[l].q)] = "y"
           /\ ring[l].rwin >= 1

(***************************************************************************)
(* Properties of the device callbacks.                                      *)
(***************************************************************************)
\* C13 as stated: an output callback that needs b samples, finds 2b samples
\* buffered and a nonzero counter releases all of them and takes one off the
\* counter
C13_CatchUpAtTwiceNeed ==
    cb.kind = "out" /\ cb.view = 2 * cb.need /\ cb.before > 0 =>
        cb.moved = cb.view /\ cb.after = cb.before - 1

\* C13: an output callback that needs b samples and finds a nonzero counter
\* takes one off the counter; it releases everything buffered when at least
\* 3b samples are buffered, that is 2b beyond the b it needs, and with fewer
\* buffered it releases only what the resampler took
C13_CatchUpAtThriceNeed ==
    cb.kind = "out" /\ cb.granted /\ cb.before > 0 =>
        /\ cb.after = cb.before - 1
        /\ cb.view >= 3 * cb.need => cb.caught_up /\ cb.moved = cb.view
        /\ cb.view < 3 * cb.need => ~cb.caught_up /\ cb.moved <= cb.need + 1

\* a callback with a nonzero counter found three times what it needs and
\* released all of it, leaving the ring empty
C13_Witness ==
    /\ cb.kind = "out"
    /\ cb.before > 0
    /\ cb.need = MaxNeed
    /\ cb.view = 3 * cb.need
    /\ cb.caught_up
    /\ outFill = 0

\* C17: a device callback whose block fits the ring can always run to
\* completion, whatever the rings hold; an input callback that finds no room
\* for its block leaves the ring as it was, and an output callback that finds
\* too few samples fills its buffer with silence and leaves the ring and the
\* counter as they were
C17_CallbacksNeverWait ==
    /\ [](\A len \in 1..MaxNeed : ENABLED InputCallback(len))
    /\ [](\A b \in 1..MaxNeed : ENABLED OutputCallback(b, 0))
    /\ [][cb'.kind \in {"in", "out"} /\ ~cb'.granted /\ ~cb'.overflow =>
             /\ inFill' = inFill
             /\ outFill' = outFill
             /\ catchup' = catchup
             /\ cb'.moved = 0
             /\ cb'.kind = "out" => cb'.silence]_vars

\* an input callback found less room than its block needs and dropped it
C17_Witness ==
    /\ cb.kind = "in"
    /\ ~cb.granted
    /\ cb.need = MaxNeed
    /\ cb.view = MaxNeed - 1
    /\ inFill = SampleCap - (MaxNeed - 1)

(***************************************************************************)
(* Properties of the device worker.                                         *)
(***************************************************************************)
\* C14: the worker executes at most one command at a time, and the devices
\* map, the id counter and the record of native calls change only in a step
\* of the worker that serves a command it has received, however many callers
\* are inside invoke()
C14_OneCommandAtATime ==
    /\ [](Cardinality(running) <= 1)
    /\ [][devices' # devices \/ deviceCounter' # deviceCounter
              \/ served' # served =>
             /\ workerUp
             /\ \E r \in running :
                   /\ r \notin running'
                   /\ served'.cmd = r.cmd]_vars

\* the worker is executing one caller's command while another caller's
\* command waits in the channel
C14_Witness ==
    /\ Cardinality(running) = 1
    /\ Len(chan) = 1
    /\ \A c \in Callers : client[c].pc = "recv"
    /\ devices # {}

\* the response a caller holds when its invoke() has returned is the one
\* response the worker sent for that caller's command, of the command's variant
ResponseMatches(c) ==
    client[c].pc = "idle" /\ client[c].cmd # NoCommand =>
        /\ client[c].n = 1
        /\ client[c].resp.variant = Variant(client[c].cmd.op)
        /\ client[c].resp.caller = c
        /\ client[c].resp.cmd = client[c].cmd

\* C15: every invoke() returns, with exactly one response, which is of the
\* variant of its command and answers this caller's command
C15_EveryInvokeAnswered ==
    /\ [](\A c \in Callers : ResponseMatches(c))
    /\ \A c \in Callers : client[c].pc = "send" ~> client[c].pc = "idle"

\* C16: when the native calls of a list or open command fail, the worker
\* answers the command with an empty result, leaves the set of open devices
\* as it was and goes on serving
C16_FailuresAreRecovered ==
    [][(\E r \in running : r \notin running') /\ served'.fault # "none" =>
           /\ workerUp'
           /\ devices' = devices
           /\ \E c \in Callers :
                 /\ client'[c].n = client[c].n + 1
                 /\ client'[c].resp.value = {}]_vars

(***************************************************************************)
(* Properties of the identity counters.                                     *)
(***************************************************************************)
\* C18 as stated: a generate() returns a value greater than every value
\* restored before it
C18_GenerateAboveRestored ==
    [][idOp'.op = "generate" =>
           \A v \in restored : \A g \in idOp'.ret : g > v]_vars

\* C18: as long as no addition on the counter has overflowed, a generate()
\* returns a value greater than every value restored before it
C18_GenerateAboveRestoredUnlessWrapped ==
    [][idOp'.op = "generate" /\ ~wrapped' =>
           \A v \in restored : \A g \in idOp'.ret : g > v]_vars

\* a value at the counter was restored and the next identity generated
\* skipped it
C18_Witness ==
    /\ idOp.op = "generate"
    /\ idOp.ret = {2}
    /\ ~wrapped
    /\ restored = {1}
    /\ generated = {0, 2}
    /\ idCounter = 3

\* C19 as stated: no call of generate() or restore() returns a value that a
\* generate() has returned before
C19_NeverReused ==
    [][idOp'.op \in {"generate", "restore"} =>
           idOp'.ret \cap generated = {}]_vars

\* C19: as long as no addition on the counter has overflowed, a generate()
\* returns a value that no generate() and no restore() has returned before
C19_GenerateIsFresh ==
    [][idOp'.op = "generate" /\ ~wrapped' =>
           idOp'.ret \cap (generated \cup restored) = {}]_vars

\* identities were generated and restored in turn, the last one generated
C19_Witness ==
    /\ idOp.op = "generate"
    /\ ~wrapped
    /\ generated = {0, 2}
    /\ restored = {0, 1}

(***************************************************************************)
(* Properties of save and load.                                             *)
(***************************************************************************)
Endpoints(ls) == {<<ls[l].lhs, ls[l].rhs>> : l \in DOMAIN ls}

\* a load stops every running task before it clears the maps
StoppedBeforeCleared(before, lg) ==
    \A n \in DOMAIN before :
        before[n].task.id # 0 =>
            \E i, j \in 1..Len(lg) :
                /\ i < j
                /\ lg[i] = <<"stop", n>>
                /\ lg[j] = <<"cleared">>

\* C20: loading the configuration save_config gives for the graph stops every
\* running task before the maps are cleared and leaves a graph with the same
\* node ids, node types and ports and the same set of link endpoints, in
\* which every node that has a link is running
C20_LoadRestoresGraph ==
    [][LogHas(log', "cleared") /\ ~panicked' =>
           /\ StoppedBeforeCleared(nodes, log')
           /\ DOMAIN nodes' = DOMAIN nodes
           /\ \A n \in DOMAIN nodes :
                 /\ nodes'[n].kind = nodes[n].kind
                 /\ Range(nodes'[n].ins) = Range(nodes[n].ins)
                 /\ Range(nodes'[n].outs) = Range(nodes[n].outs)
           /\ Endpoints(links') = Endpoints(links)
           /\ \A n \in DOMAIN nodes' :
                 (\E l \in DOMAIN links' : n \in {links'[l].lhs[1], links'[l].rhs[1]})
                     => nodes'[n].task.id # 0]_vars

(***************************************************************************)
(* C21: for every node type and every node state n, restore(save(n)) is a   *)
(* node whose save() equals save(n): node id, both name-to-port maps and,   *)
(* for the device nodes, the selected host and device.  Stated for a        *)
(* restore on which the saved device, if any, opened.                       *)
(***************************************************************************)
C21_RestoreThenSaveIsSame == rop = "restore" => save(rnode) = rcfg

\* what the round trip does keep: everything but the selected host, and the
\* host too when the first of the available hosts was the selected one
C21_AllButHostKept ==
    rop = "restore" =>
        /\ [f \in DOMAIN rcfg \ {"selected_host"} |-> save(rnode)[f]]
              = [f \in DOMAIN rcfg \ {"selected_host"} |-> rcfg[f]]
        /\ (rnode.type \in DeviceTypes =>
               save(rnode).selected_host = name(available_hosts[1]))

(***************************************************************************)
(* C24 (as stated): opening a device takes a configuration whose range      *)
(* holds 48 kHz whenever the device has one, the one with the fewest        *)
(* channels, and runs it at 48 kHz; only when no range holds 48 kHz is a    *)
(* stream built at another rate, bridged by a resampler.                    *)
(***************************************************************************)
Covering == {i \in 1..Len(supported) : Covers(supported[i])}

Playable == {i \in 1..Len(supported) : supported[i].channels <= 2}

KeptLinks == DOMAIN links \cap DOMAIN links'

\* the step is one iteration of the node that reads link l
ReadByConsumer(l) ==
    /\ nodes' = nodes
    /\ log' = log
    /\ links'[l].fill = links[l].fill - 1

C23_RequestsFitCapacity ==
    /\ MaxNeed <= SampleCap
    /\ cb.kind \in {"in", "out"} => cb.need <= SampleCap /\ ~cb.overflow

(***************************************************************************)
(* C25: in every iteration of a simple node the transform runs, and inputs  *)
(* are released, only after every fan-out link of the output port has room  *)
(* for a full block; while the node waits for room on one fan-out link it   *)
(* releases nothing on any input and commits nothing on any other output    *)
(* link.                                                                    *)
(***************************************************************************)
\* the step releases a block of an input link or commits one to an output link
TaskMoves ==
    \/ \E l \in Range(lins) : Len(ring'[l].q) < Len(ring[l].q)
    \/ \E l \in Range(louts) : Len(ring'[l].q) > Len(ring[l].q)

\* the step runs process()
TransformRuns == task.pc = "process" /\ task'.pc = "release_in"

C25_RoomOnEveryOutputFirst ==
    [][task.kind = "simple" =>
          /\ (TaskMoves \/ TransformRuns) =>
                /\ task.pc \in {"process", "release_in", "release_out"}
                /\ \A l \in Range(louts) : ring[l].wwin >= 1
          /\ task.pc = "grant_out" => ~TaskMoves /\ ~TransformRuns]_vars

\* the node waits for room on its second fan-out link while the first has
\* room and an input link holds a block
C25_Witness ==
    /\ task.kind = "simple"
    /\ task.pc = "grant_out"
    /\ task.suspended
    /\ task.i = 2
    /\ ring[louts[1]].wwin >= 1
    /\ lins # << >>
    /\ Len(ring[lins[1]].q) >= 1

(***************************************************************************)
(* C26: cancelling a node task never leaves a partially committed           *)
(* iteration: the cursors of an iteration move in the release steps only,   *)
(* the task that has begun them releases a block of every input link it     *)
(* merged and commits a block to every fan-out link before it can stop, and *)
(* a task that has stopped stopped where no cursor of its iteration had     *)
(* moved.                                                                   *)
(***************************************************************************)
ReleaseSteps == {"release_in", "release_out", "release"}

C26_NoPartialIteration ==
    /\ [](task.pc = "exited" =>
            task.exitAt \in {"select", "grant_out", "grant_in", "grant_source",
                             "grant_copy"})
    /\ [][/\ TaskMoves => task.pc \in ReleaseSteps
          /\ (task.pc = "release_in" /\ task' # task) =>
                /\ task'.pc = "release_out"
                /\ \A l \in task.merged : Len(ring'[l].q) = Len(ring[l].q) - 1
          /\ (task.pc = "release_out" /\ task' # task) =>
                /\ task'.pc = "select"
                /\ \A l \in Range(louts) : Len(ring'[l].q) = Len(ring[l].q) + 1
          /\ (task.pc = "release" /\ task' # task) =>
                /\ task'.pc = "select"
                /\ Len(dev'.q) = Len(dev.q) - 1
                /\ \A l \in Range(louts) :
                      Len(ring'[l].q) = Len(ring[l].q) + 1]_vars

\* the task was cancelled while it waited for an input block, holding room on
\* an output link into which it had written nothing
C26_Witness ==
    /\ task.pc = "exited"
    /\ task.exitAt = "grant_in"
    /\ \E l \in Range(louts) : ring[l].wwin >= 1 /\ ring[l].wbuf = "stale"
    /\ \E l \in Range(lins) : ring[l].rwin >= 1

Pos(what) == CHOOSE i \in 1..Len(log) : log[i][1] = what

C28_DeletionOrder ==
    LogHas(log, "remove_node") =>
        LET n == log[Pos("remove_node")][2]
            rm == log[Pos("drop_links")][2]
        IN  /\ LogHas(log, "unindex") /\ LogHas(log, "drop_links")
            /\ log[Pos("unindex")][2] = rm
            /\ \A i \in 1..Len(log) : log[i] = <<"stop", n>> => i < Pos("unindex")
            /\ \A i \in 1..Len(log) :
                  (log[i][1] \in {"restart", "start", "abandon"}
                     \/ (log[i][1] = "stop" /\ log[i][2] # n)) =>
                      /\ Pos("unindex") < i
                      /\ i < Pos("drop_links")
                      /\ log[i][2] # n
            /\ Pos("drop_links") < Pos("remove_node")
            /\ Pos("remove_node") = Len(log)
            /\ n \notin DOMAIN nodes
            /\ rm \cap DOMAIN links = {}
            /\ \A m \in DOMAIN nodes :
                  (UnionSeq(nodes[m].task.inputs)
                     \cup UnionSeq(nodes[m].task.outputs)) \cap rm = {}

\* a running node with a link to another running node was deleted, and the
\* other node was stopped and started again in between
C28_Witness ==
    /\ LogHas(log, "remove_node")
    /\ log[1][1] = "stop"
    /\ log[Pos("drop_links")][2] # {}
    /\ \E i \in 1..Len(log) : log[i][1] = "stop" /\ i > Pos("unindex")
    /\ \E m \in DOMAIN nodes : nodes[m].task.id # 0

(***************************************************************************)
(* C29: each node has at most one task, and start() is entered only on a    *)
(* node that has none, so its assertion never fails, whatever sequence of   *)
(* link additions and removals, node deletions, loads and "Sync output"     *)
(* the graph goes through.                                                  *)
(***************************************************************************)
\* the events of node n that handler log lg holds before position i
EarlierOf(lg, n, i) ==
    {j \in 1..(i - 1) : lg[j][1] \in {"start", "stop", "abandon"} /\ lg[j][2] = n}

C29_StartOnlyWhenStopped ==
    /\ [](~panicked)
    /\ [](\A n, m \in DOMAIN nodes :
            /\ nodes[n].task.id <= taskCounter
            /\ (n # m /\ nodes[n].task.id # 0) =>
                  nodes[n].task.id # nodes[m].task.id)
    /\ [][taskCounter' # taskCounter =>
            \A i \in 1..Len(log') :
                log'[i][1] \in {"start", "abandon"} =>
                    LET n == log'[i][2]
                        before == EarlierOf(log', n, i)
                    IN  IF before = {}
                        THEN n \notin DOMAIN nodes \/ nodes[n].task = NoTask
                        ELSE LET last == CHOOSE j \in before :
                                             \A k \in before : k <= j
                             IN  log'[last][1] \in {"stop", "abandon"}]_vars

\* one handler started the task of a node twice, stopping it in between
C29_Witness ==
    \E n \in DOMAIN nodes :
        /\ Cardinality({i \in 1..Len(log) : log[i] = <<"start", n>>}) = 2
        /\ nodes[n].task.id # 0

(***************************************************************************)
(* C30: every dereference of routing state is valid, also when several      *)
(* edits fall in one frame: no handler meets a missing key, the link ids in *)
(* the index sets are keys of the link map, every link has an index entry   *)
(* for each of its two endpoints, and the nodes of index entries and link   *)
(* endpoints, which are the nodes handed to restart_node, are keys of the   *)
(* node map.                                                                *)
(***************************************************************************)
C30_DereferencesValid ==
    /\ ~panicked
    /\ \A k \in DOMAIN inputs : inputs[k] \subseteq DOMAIN links
    /\ \A k \in DOMAIN outputs : outputs[k] \subseteq DOMAIN links
    /\ \A k \in DOMAIN inputs \cup DOMAIN outputs : k[1] \in DOMAIN nodes
    /\ \A l \in DOMAIN links :
          /\ links[l].lhs \in DOMAIN outputs
          /\ links[l].rhs \in DOMAIN inputs
          /\ links[l].lhs[1] \in DOMAIN nodes
          /\ links[l].rhs[1] \in DOMAIN nodes
    /\ \A n \in DOMAIN nodes : HandlesValid(G, n)

\* one frame detached a link, added another and deleted a node
C30_Witness ==
    /\ LogHas(log, "remove_link")
    /\ LogHas(log, "add_link")
    /\ LogHas(log, "remove_node")
    /\ links # << >>

(***************************************************************************)
(* Properties of the running graph.                                         *)
(***************************************************************************)
\* the nodes a link leads to from node n
Downstream(n) == {links[l].rhs[1] : l \in {k \in DOMAIN links : links[k].lhs[1] = n}}

\* the nodes reached from the nodes of S over at least one link
RECURSIVE ReachedFrom(_, _)
ReachedFrom(S, k) ==
    LET next == UNION {Downstream(n) : n \in S}
    IN  IF k = 0 THEN {} ELSE next \cup ReachedFrom(next, k - 1)

\* no node reaches itself
Acyclic == \A n \in DOMAIN nodes : n \notin ReachedFrom({n}, MaxNodes)

\* node n has a task
Running(n) == n \in DOMAIN nodes /\ nodes[n].task.id # 0

\* C31: in an acyclic graph every Running node completes infinitely many
\* loop iterations under fair scheduling (there are no device nodes in this
\* graph: a node without input links produces and a node without output
\* links consumes at any time): a node that stays Running in a graph that
\* stays acyclic iterates again and again.
C31_RunningNodesKeepIterating ==
    \A n \in 0..(MaxNodes - 1) :
        <>[](Acyclic /\ Running(n)) => []<><<TaskIteration(n)>>_vars

\* the state the graph stops in: a diamond of three Running nodes, the two
\* links of the long way full and the direct link empty
C31_Deadlock ==
    /\ Acyclic
    /\ Cardinality(DOMAIN links) = 3
    /\ \A n \in DOMAIN nodes : Running(n) /\ ~CanIterate(G, n)
    /\ \E a, b, d \in DOMAIN nodes :
          /\ Cardinality({a, b, d}) = 3
          /\ {<<links[l].lhs[1], links[l].rhs[1]>> : l \in DOMAIN links}
                = {<<a, b>>, <<b, d>>, <<a, d>>}

C32_LoopWindowsNeverNegative ==
    \A l \in LoopLinks : ring[l].wwin >= 0 /\ ring[l].rwin >= 0

\* C33 as stated: an output callback changes the catch-up counter only when
\* it skips ahead; with a zero counter or a backlog below the threshold the
\* counter is left as it was
C33_DecrementOnlyOnSkip ==
    cb.kind = "out" =>
        /\ cb.after # cb.before => cb.caught_up
        /\ cb.before = 0 \/ cb.view - cb.need < allowed_latency * cb.need =>
               ~cb.caught_up /\ cb.after = cb.before

\* C33: an output callback skips ahead only when the counter is nonzero and
\* the backlog beyond what it needs is at least twice what it needs; every
\* callback that is granted its samples takes one off a nonzero counter,
\* whether it skips ahead or not, and releases only what the resampler took
\* when it does not; a callback that is not granted leaves the counter and
\* the ring as they were
C33_DecrementOnEveryGrantedCallback ==
    cb.kind = "out" /\ ~cb.overflow =>
        /\ cb.caught_up <=>
               /\ cb.granted
               /\ cb.before > 0
               /\ cb.view - cb.need >= allowed_latency * cb.need
        /\ cb.granted => cb.after = saturating_sub_1(cb.before)
        /\ cb.granted /\ ~cb.caught_up => cb.moved <= cb.need + 1
        /\ ~cb.granted => cb.after = cb.before /\ cb.moved = 0
        /\ catchup = cb.after

\* a callback below the threshold found the counter nonzero, consumed
\* normally and took one off the counter
C33_Witness ==
    /\ cb.kind = "out"
    /\ cb.granted
    /\ ~cb.caught_up
    /\ cb.before > 0
    /\ cb.after = cb.before - 1
    /\ cb.view - cb.need < allowed_latency * cb.need

\* C34: the catch-up counter saturates: a TriggerResync (the only step that
\* is no callback and changes the counter) never leaves the counter smaller
\* than it found it.
C34_ResyncNeverLowersCounter ==
    [][cb'.kind = "none" => catchup' >= catchup]_vars

(***************************************************************************)
(* Properties of who touches the ring of a link.                            *)
(***************************************************************************)
\* the nodes whose task holds the producer handle of link l
Producers(l) == {n \in DOMAIN nodes : l \in UnionSeq(nodes[n].task.outputs)}

\* the nodes whose task holds the consumer handle of link l
Consumers(l) == {n \in DOMAIN nodes : l \in UnionSeq(nodes[n].task.inputs)}

\* the handles the tasks hold are of links of the graph, and the only task
\* that can hold an end of a link is the task of the node at that end
EndsHeldByEndpoints ==
    /\ \A n \in DOMAIN nodes :
           UnionSeq(nodes[n].task.inputs) \cup UnionSeq(nodes[n].task.outputs)
               \subseteq DOMAIN links
    /\ \A l \in DOMAIN links :
           /\ Producers(l) \subseteq {links[l].lhs[1]}
           /\ Consumers(l) \subseteq {links[l].rhs[1]}

\* the step is an iteration of a task that holds an end of link l and moves
\* one block over that end
MovedByEndpointTask(l) ==
    /\ nodes' = nodes
    /\ log' = log
    /\ \/ links'[l].fill = links[l].fill + 1 /\ Producers(l) = {links[l].lhs[1]}
       \/ links'[l].fill = links[l].fill - 1 /\ Consumers(l) = {links[l].rhs[1]}
       \/ /\ links'[l].fill = links[l].fill
          /\ links[l].lhs[1] = links[l].rhs[1]
          /\ Producers(l) = Consumers(l)

\* in the log of a handler every link_resync comes after the stop of every
\* node that had a task and before every start
ResyncWhileAllStopped(lg, before) ==
    \A i \in 1..Len(lg) :
        lg[i][1] = "link_resync" =>
            /\ \A n \in DOMAIN before :
                   before[n].task.id # 0 =>
                       \E j \in 1..(i - 1) : lg[j] = <<"stop", n>>
            /\ \A j \in 1..(i - 1) : lg[j][1] # "start"

OnDeclaredPort(n) ==
    {l \in DOMAIN links :
        \/ links[l].rhs[1] = n /\ links[l].rhs[2] \in Range(nodes[n].ins)
        \/ links[l].lhs[1] = n /\ links[l].lhs[2] \in Range(nodes[n].outs)}

\* C36: after every completed topology mutation (and so in every state
\* between two handlers) every node with a link on one of its declared ports
\* is Running, and its task holds, port by port, exactly the consumer and
\* producer handles the two routing indices list for the node now.
C36_LinkedNodesRunCurrentHandles ==
    \A n \in DOMAIN nodes :
        OnDeclaredPort(n) # {} =>
            /\ nodes[n].task.id # 0
            /\ nodes[n].task.inputs = compute_inputs_for(G, n)
            /\ nodes[n].task.outputs = compute_outputs_for(G, n)
            /\ UnionSeq(nodes[n].task.inputs) \cup UnionSeq(nodes[n].task.outputs)
                   = OnDeclaredPort(n)

\* the last handler restarted some node and left alone another that runs
\* with links of its own
C36_Witness ==
    /\ RestartedIn(log) # {}
    /\ \E n \in DOMAIN nodes \ RestartedIn(log) :
          /\ nodes[n].task.id # 0
          /\ OnDeclaredPort(n) # {}
    /\ \E n \in RestartedIn(log) \cap DOMAIN nodes :
          Cardinality(OnDeclaredPort(n)) = 2

(***************************************************************************)
(* Properties of the device nodes.                                          *)
(***************************************************************************)
\* C37: a device node without an active device does no work on the graph:
\* while an Input node has no device no step commits a block to one of its
\* output links or takes room on it, and while an Output node has no device
\* no step releases a block of one of its input links.
C37_NoDeviceNoWork ==
    [][~dev.open =>
          /\ task.kind = "input" =>
                \A l \in Range(louts) :
                    /\ Len(ring'[l].q) <= Len(ring[l].q)
                    /\ ring'[l].wwin = ring[l].wwin
                    /\ ring'[l].wbuf = ring[l].wbuf
          /\ task.kind = "output" =>
                \A l \in Range(lins) : Len(ring'[l].q) >= Len(ring[l].q)]_vars

\* an Output node without a device was granted the whole of its full input
\* links, found no sink and returned to the head of its loop with every
\* block still in the links
C37_Witness ==
    /\ task.kind = "output"
    /\ ~dev.open
    /\ task.pc = "select"
    /\ task.present
    /\ task.merged = Range(lins)
    /\ \A l \in Range(lins) : Len(ring[l].q) = RingCap /\ ring[l].rwin = RingCap

\* C38: load_device always completes: whenever the control thread waits for
\* the lock of the node's device handle it obtains it.
C38_LoadDeviceObtainsLock ==
    (stopPc = "load_locking") ~> (stopPc = "load_holding")

\* the state load_device waits in for ever: an Input node with a device,
\* inside perform with the source locked, suspended on an output link that
\* is full
C38_Blocked ==
    /\ stopPc = "load_locking"
    /\ task.kind = "input"
    /\ task.pc = "grant_copy"
    /\ task.suspended
    /\ Len(ring[louts[task.i]].q) = RingCap

(***************************************************************************)
(* Properties of the port registry.                                         *)
(***************************************************************************)
\* a routing index in which every port of the registry has one link, named
\* after the port
OneLinkPerPort(r) == [p \in {r.ports[k] : k \in DOMAIN r.ports} |-> {p}]

\* registry r is consistent: a name and its PortId have one ordinal, the
\* ordinals of the ports are distinct and are 0..n-1, and the handle array has
\* one entry per port, port p's handles at position ordinal(p)
Consistent(r) ==
    LET names == DOMAIN get_all(r)
        n == Cardinality(names)
        arr == handle_array(r, OneLinkPerPort(r))
    IN  /\ \A k \in names :
              /\ get_idx(r, k) # {}
              /\ get_idx(r, k) = get_portid_idx(r, get_all(r)[k])
        /\ \A a, b \in names : a # b => get_idx(r, a) # get_idx(r, b)
        /\ UNION {get_idx(r, k) : k \in names} = 0..(n - 1)
        /\ Len(arr) = n
        /\ \A k \in names : \A i \in get_idx(r, k) :
              i + 1 \in 1..Len(arr) /\ arr[i + 1] = {get_all(r)[k]}

\* C39: in every port registry, after any sequence of construction from a
\* saved map and add() calls, the ordinal looked up by name equals the ordinal
\* looked up by that name's PortId, the ordinals of distinct ports are distinct
\* and form 0..n-1, and the handle array built for the node has one entry per
\* port with port p's handles at position ordinal(p)
C39_RegistryConsistent == Consistent(reg)

\* a consistent registry stays consistent when a port is added under a name
\* it does not have yet
C39_NewNameKeepsConsistent ==
    [][(Consistent(reg) /\ DOMAIN reg'.ports # DOMAIN reg.ports)
          => Consistent(reg')]_vars

\* a registry in which no PortId was replaced, so that every PortId with an
\* ordinal is the PortId of a name, is consistent
C39_ConsistentUntilReplaced ==
    (DOMAIN get_idxs(reg) = {get_all(reg)[k] : k \in DOMAIN get_all(reg)})
        => Consistent(reg)

\* C40: calling add(name) twice on one registry with the same name creates two
\* distinct ports: after the second call the registry holds two ports with
\* different PortIds and different ordinals, both reachable through the
\* name-to-PortId map, which is also what the registry serializes to
C40_SecondAddMakesSecondPort ==
    [][\A k \in DOMAIN reg.ports :
          (reg'.counter # reg.counter /\ reg'.ports[k] = reg.counter)
             => /\ reg.ports[k] # reg'.ports[k]
                /\ {reg.ports[k], reg'.ports[k]}
                      \subseteq {get_all(reg')[x] : x \in DOMAIN get_all(reg')}
                /\ get_portid_idx(reg', reg.ports[k])
                      # get_portid_idx(reg', reg'.ports[k])]_vars

\* what the second add(name) does: the name keeps one port, under the new
\* PortId and the ordinal n, and the first PortId keeps its ordinal in
\* portid_indexes without being in the name map
C40_SecondAddReplaces ==
    [][\A k \in DOMAIN reg.ports :
          (reg'.counter # reg.counter /\ reg'.ports[k] = reg.counter)
             => /\ DOMAIN get_all(reg') = DOMAIN get_all(reg)
                /\ get_id(reg', k) = {reg.counter}
                /\ get_idx(reg', k) = {Cardinality(DOMAIN reg.ports)}
                /\ get_portid_idx(reg', reg.ports[k]) = get_portid_idx(reg, reg.ports[k])
                /\ reg.ports[k] \notin {get_all(reg')[x] : x \in DOMAIN get_all(reg')}]_vars

====
